---- MODULE Spec2Model ----
(***************************************************************************)
(* Verification development for the DID agent discovery / governance       *)
(* repository: the DID validator (infrastructure/validator.py), the        *)
(* identity wallet (infrastructure/wallet.py), the Holder runtime          *)
(* (agents/holder/runtime.py) and the Verifier runtime                     *)
(* (agents/verifier/runtime.py).                                           *)
(*                                                                         *)
(* JSON objects are records, Python dicts are functions, Python lists are  *)
(* sequences.  An ECDSA recoverable signature is the pair (signing         *)
(* address, signed text): recovering it against the signed text yields the *)
(* signing address, against any other text an unrelated address.           *)
(***************************************************************************)
EXTENDS Integers, Sequences, FiniteSets, TLC

VARIABLES
    registry,       \* on-chain ERC-1056 registry: DID -> is the op key a delegate
    api_url_pool,   \* config["api_url_pool"] of the process configuration
    did_cache,      \* DIDValidator.did_cache, one per process
    RPC_CYCLE,      \* utils._RPC_CYCLE, one per process
    vtrace,         \* observation of the last validator call
    my_vcs,         \* IdentityWallet.my_vcs of the Holder's wallet
    vp,             \* the presentation in transit, <<>> when there is none
    createdFor,     \* the nonce create_vp was last called with
    tampered,       \* what was changed in the presentation since create_vp
    vpres,          \* observation of the last verify_vp call
    hlog,           \* the Holder's memory files: counterparty DID -> log
    vlog,           \* the Verifier's memory files: counterparty DID -> log
    clock,          \* number of requests built so far (nonces, task ids, timestamps)
    target_holder_did,  \* run(): the Holder DID of the last successful execute_auth
    auditPhase,     \* how far the current run got without a fault, -1 after a fault
    done200,        \* exchanges that completed with a 200 response, per side
    last,           \* observation of the last request or protocol action
    vc_schemas,     \* the Issuer's template directory: file name -> content
    issued,         \* observation of the last POST /issue_vc
    workers,        \* per Verifier worker: where it is and the locals of run()
    max_turns,      \* run(max_turns=...)
    start_barrier,  \* run(barrier=...): the multiprocessing.Barrier, if supplied
    stats_queue,    \* run(stats_queue=...): the multiprocessing.Queue, if supplied
    driver,         \* the stress driver's main(): its collection loop
    CACHE_DIR,      \* ipfs.CACHE_DIR: the files of the cache directory, by name
    fetch,          \* the fetch_content call in progress and its gateway race
    batch,          \* the fetch_batch call in progress: its tasks and semaphore
    boot,           \* the Holder process from launch to app.run
    obs             \* the arguments and the result of the function under study

valVars == <<registry, api_url_pool, did_cache, RPC_CYCLE, vtrace>>

vpVars == <<my_vcs, vp, createdFor, tampered, vpres>>

audVars == <<hlog, vlog, clock, target_holder_did, auditPhase, done200, last>>

issVars == <<vc_schemas, issued>>

\* the state of the components added after the audit
runVars == <<workers, max_turns, start_barrier, stats_queue, driver>>

ipfsVars == <<CACHE_DIR, fetch>>

lateVars == <<batch, boot, obs>>

extVars == <<issVars, runVars, ipfsVars, lateVars>>

vars == <<registry, api_url_pool, did_cache, RPC_CYCLE, vtrace,
          my_vcs, vp, createdFor, tampered, vpres,
          hlog, vlog, clock, target_holder_did, auditPhase, done200, last,
          vc_schemas, issued,
          workers, max_turns, start_barrier, stats_queue, driver,
          CACHE_DIR, fetch, batch, boot, obs>>

(***************************************************************************)
(* Bounds and program constants                                            *)
(***************************************************************************)
PoolSize == 2

max_retries == 5

Procs == {"holder", "verifier"}

Parties == {"H", "V", "I"}

\* config["accounts"][X_admin]["address"] and config["accounts"][X_op]["address"]
AdminAddr(p) == <<p, "admin">>

OpAddr(p) == <<p, "op">>

MalloryAddr == <<"M", "op">>

GarbageAddr == <<"?", "?">>

Signers == {OpAddr(p) : p \in Parties} \cup {AdminAddr(p) : p \in Parties} \cup {MalloryAddr}

\* IdentityWallet.did: did:ethr:sepolia:<admin address>
DidOf(p) == <<"did:ethr:sepolia", AdminAddr(p)>>

DIDs == {DidOf(p) : p \in Parties}

PartyOf(did) == did[2][1]

(***************************************************************************)
(* Canonical serialisation: json.dumps(obj, sort_keys=True,                *)
(* separators=(',', ':')) lists the (key, value) members in key order.     *)
(***************************************************************************)
KeyOrder == <<"@context", "applicant", "context_hash", "credentialSubject",
              "credentialType", "execution_result",
              "holder", "issuer", "mock", "nonce", "proof", "prompt", "signature",
              "task_id", "timeout_ms", "timestamp", "type", "validFrom", "validUntil",
              "verifiableCredential", "verifier_did", "verifier_signature">>

SortedKeys(obj) == SelectSeq(KeyOrder, LAMBDA k : k \in DOMAIN obj)

Serialize(obj) == [i \in 1..Len(SortedKeys(obj)) |-> <<SortedKeys(obj)[i], obj[SortedKeys(obj)[i]]>>]

\* payload = obj.copy(); del payload[field]
WithoutField(obj, field) == [k \in (DOMAIN obj) \ {field} |-> obj[k]]

(***************************************************************************)
(* Signatures                                                              *)
(***************************************************************************)
\* a request field that is absent (Python None)
NoSig == [present |-> FALSE, wellformed |-> FALSE, signer |-> GarbageAddr, msg |-> <<>>]

\* a signature string that is not a valid 65-byte signature
BadSig == [present |-> TRUE, wellformed |-> FALSE, signer |-> GarbageAddr, msg |-> <<>>]

NoDid == <<"", <<"", "">>>>

\* IdentityWallet.sign_message with the private key of address addr
sign_message(addr, text_payload) ==
    [present |-> TRUE, wellformed |-> TRUE, signer |-> addr, msg |-> text_payload]

\* w3.eth.account.recover_message(encode_defunct(text), signature)
recover_message(text_payload, signature) ==
    IF ~signature.wellformed THEN [raised |-> TRUE, addr |-> GarbageAddr]
    ELSE IF signature.msg = text_payload THEN [raised |-> FALSE, addr |-> signature.signer]
    ELSE [raised |-> FALSE, addr |-> GarbageAddr]

(***************************************************************************)
(* DID documents as the external resolver returns them                     *)
(***************************************************************************)
\* Python None as a document: resolution failed, or "didDocument": null
NoneDoc == [none |-> TRUE]

\* the document of a DID: the owner as blockchainAccountId, the op key as a
\* publicKeyHex delegate when the registry holds the delegation
DocOf(did, reg) ==
    [verificationMethod |->
        <<[blockchainAccountId |-> <<"eip155", "11155111", did[2]>>]>>
        \o (IF reg[did] THEN <<[publicKeyHex |-> OpAddr(PartyOf(did))]>> ELSE <<>>)]

Falsy(doc) == "none" \in DOMAIN doc

check_authorization(did_doc, recovered_address) ==
    IF Falsy(did_doc) \/ "verificationMethod" \notin DOMAIN did_doc THEN FALSE
    ELSE \E i \in 1..Len(did_doc.verificationMethod) :
            LET method == did_doc.verificationMethod[i] IN
            \/ /\ "blockchainAccountId" \in DOMAIN method
               /\ method.blockchainAccountId[Len(method.blockchainAccountId)] = recovered_address
            \/ /\ "publicKeyHex" \in DOMAIN method
               /\ method.publicKeyHex = recovered_address

(***************************************************************************)
(* RPC endpoint rotation (infrastructure/utils.py)                         *)
(***************************************************************************)
api_url == 0

Pools == {<<>>, [i \in 1..PoolSize |-> i]}

\* the start index is drawn again at every call
get_rpc_url_redrawn(cycle, pool, start) ==
    IF Len(pool) > 0
    THEN LET c == ((start - 1) % Len(pool)) + 1
         IN [url |-> pool[c], cycle |-> (c % Len(pool)) + 1]
    ELSE [url |-> api_url, cycle |-> cycle]

\* cycle is the index of the next pool element, None before the first call;
\* start is the random start index drawn at the first call
get_rpc_url(cycle, pool, start) ==
    IF Len(pool) > 0
    THEN LET c == IF cycle = 0 THEN ((start - 1) % Len(pool)) + 1 ELSE cycle
         IN [url |-> pool[c], cycle |-> (c % Len(pool)) + 1]
    ELSE [url |-> api_url, cycle |-> cycle]

\* an assignment to a local: x is evaluated once and its value handed to F
Bind(x, F(_)) == CHOOSE y \in {F(v) : v \in {x}} : TRUE

(***************************************************************************)
(* DIDValidator.resolve_did                                                *)
(***************************************************************************)
FailKinds == {"exit_nonzero", "no_didDocument", "exception"}

\* what the resolver process does in one resolve_did call: its first k runs
\* fail in the given way, the next one exits 0 and prints a didDocument
\* (null when the resolver reports a resolution error in its metadata)
ResolverEnvs == [k : 0..max_retries, kind : FailKinds, null : BOOLEAN]

\* subprocess.run(["node", resolve_script, did, current_rpc_url])
RunNode(did, url, attempt, env, reg) ==
    IF attempt < env.k
    THEN CASE env.kind = "exit_nonzero" -> [raised |-> FALSE, returncode |-> 1, stdout |-> [error |-> TRUE]]
           [] env.kind = "no_didDocument" -> [raised |-> FALSE, returncode |-> 0, stdout |-> [error |-> TRUE]]
           [] OTHER -> [raised |-> TRUE, returncode |-> 0, stdout |-> [error |-> TRUE]]
    ELSE [raised |-> FALSE, returncode |-> 0,
          stdout |-> [didDocument |-> IF env.null THEN NoneDoc ELSE DocOf(did, reg)]]

\* self.did_cache[did] = doc
CachePut(cache, did, doc) ==
    [d \in (DOMAIN cache) \cup {did} |-> IF d = did THEN doc ELSE cache[d]]

\* del self.did_cache[did]
CacheDel(cache, did) == [d \in (DOMAIN cache) \ {did} |-> cache[d]]

\* resolve_attempts with an off-by-one loop bound: a sixth resolver run
RECURSIVE resolve_attempts_extra(_, _, _, _, _, _, _, _, _)
resolve_attempts_extra(attempt, cache, cycle, pool, start, did, env, reg, urls) ==
    IF attempt > max_retries
    THEN [doc |-> NoneDoc, cache |-> cache, cycle |-> cycle, urls |-> urls]
    ELSE Bind(get_rpc_url(cycle, pool, start), LAMBDA rpc :
         Bind(RunNode(did, rpc.url, attempt, env, reg), LAMBDA process :
            IF /\ ~process.raised
               /\ process.returncode = 0
               /\ "didDocument" \in DOMAIN process.stdout
            THEN [doc |-> process.stdout.didDocument,
                  cache |-> CachePut(cache, did, process.stdout.didDocument),
                  cycle |-> rpc.cycle,
                  urls |-> Append(urls, rpc.url)]
            ELSE resolve_attempts_extra(attempt + 1, cache, rpc.cycle, pool, start, did, env, reg,
                                        Append(urls, rpc.url))))

RECURSIVE resolve_attempts(_, _, _, _, _, _, _, _, _)
resolve_attempts(attempt, cache, cycle, pool, start, did, env, reg, urls) ==
    IF attempt >= max_retries
    THEN [doc |-> NoneDoc, cache |-> cache, cycle |-> cycle, urls |-> urls]
    ELSE Bind(get_rpc_url(cycle, pool, start), LAMBDA rpc :
         Bind(RunNode(did, rpc.url, attempt, env, reg), LAMBDA process :
            IF /\ ~process.raised
               /\ process.returncode = 0
               /\ "didDocument" \in DOMAIN process.stdout
            THEN [doc |-> process.stdout.didDocument,
                  cache |-> CachePut(cache, did, process.stdout.didDocument),
                  cycle |-> rpc.cycle,
                  urls |-> Append(urls, rpc.url)]
            ELSE resolve_attempts(attempt + 1, cache, rpc.cycle, pool, start, did, env, reg,
                                  Append(urls, rpc.url))))

resolve_did(cache, cycle, pool, start, did, env, reg) ==
    IF did \in DOMAIN cache
    THEN [doc |-> cache[did], cache |-> cache, cycle |-> cycle, urls |-> <<>>]
    ELSE resolve_attempts(0, cache, cycle, pool, start, did, env, reg, <<>>)

(***************************************************************************)
(* DIDValidator.verify_request_signature                                   *)
(* ret is "pair" for a returned (bool, reason) and "None" when the         *)
(* function runs off its end; resolves, evictions and urls observe the     *)
(* call.                                                                   *)
(***************************************************************************)
Returned(ok, reason, cache, cycle, resolves, evictions, urls) ==
    [ret |-> "pair", ok |-> ok, reason |-> reason, cache |-> cache, cycle |-> cycle,
     resolves |-> resolves, evictions |-> evictions, urls |-> urls]

FellOffEnd(cache, cycle, resolves, evictions, urls) ==
    [ret |-> "None", ok |-> FALSE, reason |-> "", cache |-> cache, cycle |-> cycle,
     resolves |-> resolves, evictions |-> evictions, urls |-> urls]

verify_request_signature(cache, cycle, pool, start, reg, text_payload, signature, claimed_did, env1, env2) ==
    IF ~signature.present \/ claimed_did = NoDid
    THEN Returned(FALSE, "missing signature or DID", cache, cycle, 0, 0, <<>>)
    ELSE Bind(recover_message(text_payload, signature), LAMBDA rec :
         IF rec.raised
         THEN Returned(FALSE, "exception during verification", cache, cycle, 0, 0, <<>>)
         ELSE Bind(resolve_did(cache, cycle, pool, start, claimed_did, env1, reg), LAMBDA r1 :
              IF Falsy(r1.doc)
              THEN Returned(FALSE, "DID document resolution failed", r1.cache, r1.cycle, 1, 0, r1.urls)
              ELSE IF check_authorization(r1.doc, rec.addr)
              THEN Returned(TRUE, "verified", r1.cache, r1.cycle, 1, 0, r1.urls)
              ELSE IF claimed_did \in DOMAIN r1.cache
              THEN Bind(resolve_did(CacheDel(r1.cache, claimed_did), r1.cycle, pool, start,
                                    claimed_did, env2, reg), LAMBDA r2 :
                      IF ~Falsy(r2.doc) /\ check_authorization(r2.doc, rec.addr)
                      THEN Returned(TRUE, "verified on retry", r2.cache, r2.cycle, 2, 1, r1.urls \o r2.urls)
                      ELSE FellOffEnd(r2.cache, r2.cycle, 2, 1, r1.urls \o r2.urls))
              ELSE Returned(FALSE, "signer not authorized", r1.cache, r1.cycle, 1, 0, r1.urls)))

(***************************************************************************)
(* Credentials and presentations                                           *)
(***************************************************************************)
MaxTime == 1

MaxVCs == 2

MaxNonce == 2

\* a validUntil string that datetime.fromisoformat rejects
Unparseable == 0 - 1

VcBody(subject, issuer) ==
    [type |-> "Audit_License", credentialSubject |-> [id |-> subject], issuer |-> issuer]

WithValidUntil(body, t) ==
    [k \in (DOMAIN body) \cup {"validUntil"} |-> IF k = "validUntil" THEN t ELSE body[k]]

\* the Issuer's proof block: the signature covers the credential without proof
WithProof(body, addr) ==
    [k \in (DOMAIN body) \cup {"proof"} |->
        IF k = "proof" THEN [jws |-> sign_message(addr, Serialize(body))] ELSE body[k]]

GoodVC == WithProof(WithValidUntil(VcBody(DidOf("H"), DidOf("I")), MaxTime + 1), OpAddr("I"))

NoExpiryVC == WithProof(VcBody(DidOf("H"), DidOf("I")), OpAddr("I"))

ExpiringVC == WithProof(WithValidUntil(VcBody(DidOf("H"), DidOf("I")), 0), OpAddr("I"))

UnparseableVC == WithProof(WithValidUntil(VcBody(DidOf("H"), DidOf("I")), Unparseable), OpAddr("I"))

ForeignVC == WithProof(WithValidUntil(VcBody(DidOf("V"), DidOf("I")), MaxTime + 1), OpAddr("I"))

ForgedVC == WithProof(WithValidUntil(VcBody(DidOf("H"), DidOf("I")), MaxTime + 1), MalloryAddr)

\* the credential execute_request_vc fabricates when the Issuer is unreachable
MockVC == [type |-> "Audit_License", credentialSubject |-> [id |-> DidOf("H")], mock |-> TRUE]

VCPool == {GoodVC, NoExpiryVC, ExpiringVC, UnparseableVC, ForeignVC, ForgedVC, MockVC}

\* IdentityWallet.create_vp, signing with the wallet's op key
create_vp(vcs, did, addr, nonce) ==
    LET vp_payload == [type |-> "VerifiablePresentation",
                       verifiableCredential |-> vcs,
                       holder |-> did]
        signature_hex == sign_message(addr, Serialize(vp_payload))
    IN [k \in (DOMAIN vp_payload) \cup {"proof"} |->
           IF k = "proof"
           THEN [type |-> "EcdsaSecp256k1RecoverySignature2020",
                 proofPurpose |-> "authentication",
                 challenge |-> nonce,
                 jws |-> signature_hex]
           ELSE vp_payload[k]]

\* the outcome of a validator call that may also raise
VOut(res, reason, cache, cycle) == [res |-> res, reason |-> reason, cache |-> cache, cycle |-> cycle]

\* a validUntil string without a UTC offset, such as "2024-12-01" or
\* "2024-12-01T00:00:00", that names the instant t when read as UTC
Naive(t) == 0 - (t + 2)

\* datetime.fromisoformat(vc["validUntil"].replace("Z", "+00:00")): raised
\* for a string it rejects, else the datetime, naive when the string has no offset
fromisoformat(exp_str) ==
    IF exp_str = Unparseable THEN [raised |-> TRUE, naive |-> FALSE, t |-> 0]
    ELSE IF exp_str < Unparseable THEN [raised |-> FALSE, naive |-> TRUE, t |-> 0 - exp_str - 2]
    ELSE [raised |-> FALSE, naive |-> FALSE, t |-> exp_str]

\* the try block of the time check: TRUE when it reaches `now > exp` and the
\* comparison holds; comparing the aware now with a naive exp raises
\* TypeError, which the except clause swallows like a parse error
expired(now, exp_str) ==
    LET exp == fromisoformat(exp_str)
    IN IF exp.raised \/ exp.naive THEN FALSE ELSE now > exp.t

\* DIDValidator.trusted_issuers of a validator built from the configuration
TrustedIssuers == {AdminAddr("I")}

\* an issuer outside the list is refused
issuer_check_strict(trusted_issuers, issuer_did) ==
    LET issuer_addr == issuer_did[2]
    IN IF issuer_addr \notin trusted_issuers THEN "reject" ELSE "pass"

\* the Issuer Check of _verify_single_vc: its branch for an issuer outside
\* trusted_issuers is `pass`
issuer_check(trusted_issuers, issuer_did) ==
    LET issuer_addr == issuer_did[2]
    IN IF issuer_addr \notin trusted_issuers THEN "pass" ELSE "pass"

\* DIDValidator._verify_single_vc: res is "ok" for valid, "fail" for an
\* invalid credential and "raise" when an exception leaves the function
_verify_single_vc(trusted_issuers, cache, cycle, pool, start, reg, now, vc, expected_holder, env1, env2) ==
    IF vc.credentialSubject.id # expected_holder
    THEN VOut("fail", "Subject-Mismatch", cache, cycle)
    ELSE IF "validUntil" \in DOMAIN vc /\ expired(now, vc.validUntil)
    THEN VOut("fail", "Credential-Expired", cache, cycle)
    ELSE IF "issuer" \notin DOMAIN vc \/ "proof" \notin DOMAIN vc
    THEN VOut("raise", "KeyError", cache, cycle)
    ELSE IF issuer_check(trusted_issuers, vc.issuer) = "reject"
    THEN VOut("fail", "Issuer-Untrusted", cache, cycle)
    ELSE Bind(WithoutField(vc, "proof"), LAMBDA vc_payload :
         Bind(verify_request_signature(cache, cycle, pool, start, reg, Serialize(vc_payload),
                                       vc.proof.jws, vc.issuer, env1, env2), LAMBDA r :
            IF r.ret # "pair" THEN VOut("raise", "TypeError", r.cache, r.cycle)
            ELSE IF ~r.ok THEN VOut("fail", "Credential-Signature-Invalid", r.cache, r.cycle)
            ELSE VOut("ok", "", r.cache, r.cycle)))

\* the loop over vp_json["verifiableCredential"]
RECURSIVE verify_vcs(_, _, _, _, _, _, _, _, _, _, _)
verify_vcs(i, cache, cycle, pool, start, reg, now, vcs, holder_did, env1, env2) ==
    IF i > Len(vcs) THEN VOut("ok", "VP Valid", cache, cycle)
    ELSE Bind(_verify_single_vc(TrustedIssuers, cache, cycle, pool, start, reg, now, vcs[i],
                                holder_did, env1, env2), LAMBDA vc_res :
            IF vc_res.res # "ok" THEN vc_res
            ELSE verify_vcs(i + 1, vc_res.cache, vc_res.cycle, pool, start, reg, now, vcs,
                            holder_did, env1, env2))

\* verify_vp that serialises the presentation without removing its proof
verify_vp_keeps_proof(cache, cycle, pool, start, reg, now, vp_json, expected_nonce, env1, env2) ==
    IF vp_json.proof.challenge # expected_nonce
    THEN VOut("fail", "Nonce-Mismatch", cache, cycle)
    ELSE Bind(verify_request_signature(cache, cycle, pool, start, reg, Serialize(vp_json),
                                       vp_json.proof.jws, vp_json.holder, env1, env2), LAMBDA r :
            IF r.ret # "pair" THEN VOut("raise", "TypeError", r.cache, r.cycle)
            ELSE IF ~r.ok THEN VOut("fail", "VP Signature Invalid", r.cache, r.cycle)
            ELSE verify_vcs(1, r.cache, r.cycle, pool, start, reg, now,
                            vp_json.verifiableCredential, vp_json.holder, env1, env2))

\* DIDValidator.verify_vp
verify_vp(cache, cycle, pool, start, reg, now, vp_json, expected_nonce, env1, env2) ==
    IF vp_json.proof.challenge # expected_nonce
    THEN VOut("fail", "Nonce-Mismatch", cache, cycle)
    ELSE Bind(WithoutField(vp_json, "proof"), LAMBDA payload :
         Bind(verify_request_signature(cache, cycle, pool, start, reg, Serialize(payload),
                                       vp_json.proof.jws, vp_json.holder, env1, env2), LAMBDA r :
            IF r.ret # "pair" THEN VOut("raise", "TypeError", r.cache, r.cycle)
            ELSE IF ~r.ok THEN VOut("fail", "VP Signature Invalid", r.cache, r.cycle)
            ELSE verify_vcs(1, r.cache, r.cycle, pool, start, reg, now,
                            vp_json.verifiableCredential, vp_json.holder, env1, env2)))

(***************************************************************************)
(* The validator on its own: resolve_did and verify_request_signature      *)
(* called with arbitrary inputs while the registry changes underneath.     *)
(***************************************************************************)
EmptyCache == [d \in {} |-> NoneDoc]

\* what a trace keeps of a resolver behaviour
Observed(env) == [k |-> env.k, null |-> env.null]

NoEnv == [k |-> 0, null |-> FALSE]

NoTrace ==
    [op |-> "none", did |-> NoDid, addr |-> GarbageAddr, sigOk |-> FALSE,
     cacheBefore |-> EmptyCache, cacheAfter |-> EmptyCache, chainDoc |-> NoneDoc,
     env1 |-> NoEnv, env2 |-> NoEnv, ret |-> "none", ok |-> FALSE, reason |-> "",
     doc |-> NoneDoc, resolves |-> 0, evictions |-> 0, urls |-> <<>>]

\* the DIDs and signatures the validator is called with
ValDids == {DidOf("H"), DidOf("I")}

ValText == Serialize([nonce |-> 1])

OtherText == Serialize([nonce |-> 2])

ValSigs ==
    {NoSig, BadSig, sign_message(OpAddr("H"), OtherText)}
    \cup {sign_message(a, ValText) : a \in {OpAddr("H"), AdminAddr("H"), MalloryAddr}}

\* resolver behaviours tried inside one verification
VerifyEnvs ==
    {e \in ResolverEnvs : /\ e.kind = "exit_nonzero"
                          /\ e.k \in {0, max_retries}
                          /\ (e.null => e.k = 0)}

\* the start index is drawn only by the first get_rpc_url call of a process
Starts(p) == IF RPC_CYCLE[p] = 0 /\ Len(api_url_pool) > 0 THEN 1..Len(api_url_pool) ELSE {1}

NoVpRes ==
    [op |-> "none", vp |-> <<>>, nonce |-> 0, now |-> 0, res |-> "none", reason |-> "",
     createdFor |-> 0, tampered |-> {}, reachable |-> FALSE, holderAuth |-> FALSE,
     vcsOk |-> FALSE, keyDelegated |-> FALSE]

NoFiles == [d \in {} |-> <<>>]

NoLast ==
    [op |-> "none", endpoint |-> "", hasDid |-> FALSE, hasSig |-> FALSE, authorized |-> FALSE,
     status |-> 0, reasonKept |-> FALSE, brain |-> FALSE, hlogChanged |-> FALSE,
     vlogChanged |-> FALSE, recv |-> 0, success |-> FALSE, reached |-> FALSE,
     fault |-> FALSE, approved |-> FALSE, verified |-> FALSE, phaseBefore |-> 0 - 1]

\* no POST /issue_vc was observed yet
NoIssued ==
    [status |-> 0, body |-> <<>>, applicant |-> NoDid, hasSig |-> FALSE,
     authorized |-> FALSE, credentialType |-> "", now |-> 0]

\* the Issuer's state while the Issuer is not under study
IssuerIdle ==
    /\ vc_schemas = [exists |-> FALSE, files |-> <<>>]
    /\ issued = NoIssued

\* run(barrier=None) and run(stats_queue=None)
NoBarrier == [supplied |-> FALSE, parties |-> 0, count |-> 0, state |-> "filling"]

NoQueue == [supplied |-> FALSE, items |-> <<>>]

\* main() is not running
NoDriver == [pc |-> "none", collected_count |-> 0, results |-> <<>>, elapsed |-> 0]

\* the Verifier workers' state while no run is under study
RunIdle ==
    /\ workers = <<>>
    /\ max_turns = 0
    /\ start_barrier = NoBarrier
    /\ stats_queue = NoQueue
    /\ driver = NoDriver

\* no fetch_content call was made yet
NoFetch ==
    [pc |-> "idle", cid |-> "", attempt_number |-> 0, tasks |-> <<>>,
     completed |-> <<>>, result |-> <<>>, requests |-> 0,
     file |-> [found |-> FALSE, bytes |-> <<>>], hit |-> FALSE, first |-> 0,
     failed_attempts |-> 0]

\* the cache directory and the fetch while IPFS is not under study
IpfsIdle ==
    /\ CACHE_DIR = <<>>
    /\ fetch = NoFetch

\* no fetch_batch call, no Holder launch and no function call under study
NoBatch == [pc |-> "none"]

NoBoot == [pc |-> "none"]

NoObs == [op |-> "none"]

LateIdle ==
    /\ batch = NoBatch
    /\ boot = NoBoot
    /\ obs = NoObs

ExtIdle ==
    /\ IssuerIdle
    /\ RunIdle
    /\ IpfsIdle
    /\ LateIdle

\* the audit state while no audit is under study
AuditIdle ==
    /\ hlog = NoFiles
    /\ vlog = NoFiles
    /\ clock = 0
    /\ target_holder_did = <<>>
    /\ auditPhase = 0 - 1
    /\ done200 = [side \in {"holder", "verifier"} |-> 0]
    /\ last = NoLast

\* the presentation state while no presentation is under study
VpIdle ==
    /\ my_vcs = <<>>
    /\ vp = <<>>
    /\ createdFor = 0
    /\ tampered = {}
    /\ vpres = NoVpRes

ValInit ==
    /\ registry = [d \in DIDs |-> TRUE]
    /\ api_url_pool \in Pools
    /\ did_cache = [p \in Procs |-> EmptyCache]
    /\ RPC_CYCLE = [p \in Procs |-> 0]
    /\ vtrace = NoTrace
    /\ VpIdle
    /\ AuditIdle
    /\ ExtIdle

\* a delegate is added to or revoked from the registry (setAttribute / revokeAttribute)
UpdateRegistry(did) ==
    /\ registry' = [registry EXCEPT ![did] = ~registry[did]]
    /\ UNCHANGED <<api_url_pool, did_cache, RPC_CYCLE, vtrace>>
    /\ UNCHANGED vpVars
    /\ UNCHANGED audVars
    /\ UNCHANGED extVars

ResolveDid(p, did, env, start) ==
    \E r \in {resolve_did(did_cache[p], RPC_CYCLE[p], api_url_pool, start, did, env, registry)} :
    /\ did_cache' = [did_cache EXCEPT ![p] = r.cache]
    /\ RPC_CYCLE' = [RPC_CYCLE EXCEPT ![p] = r.cycle]
    /\ vtrace' = [NoTrace EXCEPT !.op = "resolve", !.did = did, !.cacheBefore = did_cache[p],
                                 !.cacheAfter = r.cache, !.chainDoc = DocOf(did, registry),
                                 !.env1 = Observed(env),
                                 !.doc = r.doc, !.resolves = 1, !.urls = r.urls]
    /\ UNCHANGED <<registry, api_url_pool>>
    /\ UNCHANGED vpVars
    /\ UNCHANGED audVars
    /\ UNCHANGED extVars

VerifyRequestSignature(p, signature, claimed_did, env1, env2, start) ==
    \E r \in {verify_request_signature(did_cache[p], RPC_CYCLE[p], api_url_pool, start, registry,
                                       ValText, signature, claimed_did, env1, env2)} :
    \E rec \in {recover_message(ValText, signature)} :
    /\ did_cache' = [did_cache EXCEPT ![p] = r.cache]
    /\ RPC_CYCLE' = [RPC_CYCLE EXCEPT ![p] = r.cycle]
    /\ vtrace' = [NoTrace EXCEPT !.op = "verify", !.did = claimed_did, !.addr = rec.addr,
                                 !.sigOk = signature.present /\ ~rec.raised,
                                 !.cacheBefore = did_cache[p], !.cacheAfter = r.cache,
                                 !.chainDoc = IF claimed_did = NoDid THEN NoneDoc
                                              ELSE DocOf(claimed_did, registry),
                                 !.env1 = Observed(env1), !.env2 = Observed(env2),
                                 !.ret = r.ret, !.ok = r.ok, !.reason = r.reason,
                                 !.resolves = r.resolves, !.evictions = r.evictions,
                                 !.urls = r.urls]
    /\ UNCHANGED <<registry, api_url_pool>>
    /\ UNCHANGED vpVars
    /\ UNCHANGED audVars
    /\ UNCHANGED extVars

ValNext ==
    \/ UpdateRegistry(DidOf("H"))
    \/ \E did \in ValDids, env \in ResolverEnvs, start \in Starts("verifier") :
          ResolveDid("verifier", did, env, start)
    \/ \E signature \in ValSigs, did \in {DidOf("H"), NoDid}, env1 \in VerifyEnvs,
          env2 \in VerifyEnvs, start \in Starts("verifier") :
          VerifyRequestSignature("verifier", signature, did, env1, env2, start)

SpecValidator == ValInit /\ [][ValNext]_vars

\* C5: verify_request_signature returns a (boolean, reason) pair on every
\* execution path, in particular when the recovered signer is not authorized
\* before and after the cache-eviction retry.
C5_ReturnsPair == vtrace.op = "verify" => vtrace.ret = "pair"

\* the authorization check of the traced verification failed against a
\* document that was in the cache when the call started
FailedOnCachedDoc ==
    /\ vtrace.op = "verify"
    /\ vtrace.sigOk
    /\ vtrace.did \in DOMAIN vtrace.cacheBefore
    /\ ~Falsy(vtrace.cacheBefore[vtrace.did])
    /\ ~check_authorization(vtrace.cacheBefore[vtrace.did], vtrace.addr)

\* the retry of the traced verification obtains a document that authorizes the signer
FreshDocAuthorizes ==
    /\ vtrace.env2.k < max_retries
    /\ ~vtrace.env2.null
    /\ check_authorization(vtrace.chainDoc, vtrace.addr)

\* C6: when the authorization check fails against a cached document, the
\* entry is evicted and resolve_did is invoked again exactly once; the call
\* succeeds if the fresh document authorizes the signer and reports failure
\* otherwise.
C6_EvictRetryOnce ==
    FailedOnCachedDoc =>
        /\ vtrace.evictions = 1
        /\ vtrace.resolves = 2
        /\ vtrace.ret = "pair"
        /\ vtrace.ok = FreshDocAuthorizes

\* the endpoints of consecutive resolver runs follow the rotation of the pool
NewEndpointEachAttempt(urls, pool) ==
    IF Len(pool) = 0
    THEN \A i \in 1..Len(urls) : urls[i] = api_url
    ELSE \A i \in 1..(Len(urls) - 1) :
            \E j \in 1..Len(pool) : urls[i] = pool[j] /\ urls[i + 1] = pool[(j % Len(pool)) + 1]

\* C7: resolve_did on a cache hit returns the cached document with no
\* resolver run; on a miss it runs the resolver at most 5 times, each with a
\* newly selected endpoint, stops at the first run that exits 0 with a
\* didDocument, which it caches and returns, and after 5 failed runs returns
\* failure and leaves the cache as it was.
C7_ResolveDid ==
    vtrace.op = "resolve" =>
        LET did == vtrace.did
            before == vtrace.cacheBefore
            after == vtrace.cacheAfter
            k == vtrace.env1.k
        IN IF did \in DOMAIN before
           THEN /\ vtrace.urls = <<>>
                /\ vtrace.doc = before[did]
                /\ after = before
           ELSE /\ Len(vtrace.urls) <= 5
                /\ NewEndpointEachAttempt(vtrace.urls, api_url_pool)
                /\ IF k < 5
                   THEN /\ Len(vtrace.urls) = k + 1
                        /\ vtrace.doc = (IF vtrace.env1.null THEN NoneDoc ELSE vtrace.chainDoc)
                        /\ DOMAIN after = DOMAIN before \cup {did}
                        /\ after[did] = vtrace.doc
                        /\ \A d \in DOMAIN before : after[d] = before[d]
                   ELSE /\ Len(vtrace.urls) = 5
                        /\ Falsy(vtrace.doc)
                        /\ after = before

\* a cache miss on which all 5 resolver runs failed, with a pool to rotate over
C7_Witness ==
    /\ vtrace.op = "resolve"
    /\ vtrace.did \notin DOMAIN vtrace.cacheBefore
    /\ vtrace.env1.k = max_retries
    /\ Len(vtrace.urls) = max_retries
    /\ Len(api_url_pool) > 1

(***************************************************************************)
(* Presentations: the Holder's wallet builds a VP for a challenge, a party *)
(* without the Holder's key changes it in transit, the Verifier's          *)
(* validator checks it.                                                    *)
(***************************************************************************)
\* wallets: any list of at most MaxVCs credentials, all but the last one good
Wallets ==
    {<<>>} \cup UNION {{[i \in 1..n |-> IF i = n THEN v ELSE GoodVC] : v \in VCPool} : n \in 1..MaxVCs}

\* resolver behaviours during presentation checks: reachable or down
VpEnvs == {e \in VerifyEnvs : ~e.null}

VpInit ==
    /\ registry = [d \in DIDs |-> TRUE]
    /\ api_url_pool = <<>>
    /\ did_cache = [p \in Procs |-> EmptyCache]
    /\ RPC_CYCLE = [p \in Procs |-> 0]
    /\ vtrace = NoTrace
    /\ my_vcs \in Wallets
    /\ vp = <<>>
    /\ createdFor = 0
    /\ tampered = {}
    /\ vpres = NoVpRes
    /\ AuditIdle
    /\ ExtIdle

\* the Holder's delegate key is added to or revoked from the registry
RotateHolderKey ==
    /\ registry' = [registry EXCEPT ![DidOf("H")] = ~registry[DidOf("H")]]
    /\ UNCHANGED <<api_url_pool, did_cache, RPC_CYCLE, vtrace>>
    /\ UNCHANGED vpVars
    /\ UNCHANGED audVars
    /\ UNCHANGED extVars

CreateVP(nonce) ==
    /\ vp' = <<create_vp(my_vcs, DidOf("H"), OpAddr("H"), nonce)>>
    /\ createdFor' = nonce
    /\ tampered' = {}
    /\ vpres' = NoVpRes
    /\ UNCHANGED my_vcs
    /\ UNCHANGED valVars
    /\ UNCHANGED audVars
    /\ UNCHANGED extVars

\* proof.challenge is overwritten in transit
TamperChallenge(nonce) ==
    /\ vp # <<>>
    /\ vp[1].proof.challenge # nonce
    /\ vp' = <<[vp[1] EXCEPT !.proof.challenge = nonce]>>
    /\ tampered' = tampered \cup {"challenge"}
    /\ UNCHANGED <<my_vcs, createdFor, vpres>>
    /\ UNCHANGED valVars
    /\ UNCHANGED audVars
    /\ UNCHANGED extVars

\* credentialSubject.id of credential i is overwritten in transit
TamperSubject(i, did) ==
    /\ vp # <<>>
    /\ "subject" \notin tampered
    /\ i \in 1..Len(vp[1].verifiableCredential)
    /\ vp[1].verifiableCredential[i].credentialSubject.id # did
    /\ vp' = <<[vp[1] EXCEPT !.verifiableCredential[i].credentialSubject.id = did]>>
    /\ tampered' = tampered \cup {"subject"}
    /\ UNCHANGED <<my_vcs, createdFor, vpres>>
    /\ UNCHANGED valVars
    /\ UNCHANGED audVars
    /\ UNCHANGED extVars

\* the presentation is signed again with a key that is not the Holder's
TamperResign ==
    /\ vp # <<>>
    /\ vp' = <<[vp[1] EXCEPT !.proof.jws = sign_message(MalloryAddr, Serialize(WithoutField(vp[1], "proof")))]>>
    /\ tampered' = tampered \cup {"resign"}
    /\ UNCHANGED <<my_vcs, createdFor, vpres>>
    /\ UNCHANGED valVars
    /\ UNCHANGED audVars
    /\ UNCHANGED extVars

\* some document the validator can obtain for did authorizes addr
AuthorizedBySome(cache, reg, did, addr) ==
    \/ check_authorization(DocOf(did, reg), addr)
    \/ did \in DOMAIN cache /\ check_authorization(cache[did], addr)

\* what per-credential validation demands of a credential at time now
VcPasses(cache, reg, now, vc, holder) ==
    /\ vc.credentialSubject.id = holder
    /\ ~("validUntil" \in DOMAIN vc /\ vc.validUntil # Unparseable /\ vc.validUntil < now)
    /\ "issuer" \in DOMAIN vc
    /\ "proof" \in DOMAIN vc
    /\ AuthorizedBySome(cache, reg, vc.issuer,
                        recover_message(Serialize(WithoutField(vc, "proof")), vc.proof.jws).addr)

VerifyVP(expected_nonce, now, env1, env2, start) ==
    /\ vp # <<>>
    /\ \E r \in {verify_vp(did_cache["verifier"], RPC_CYCLE["verifier"], api_url_pool, start,
                            registry, now, vp[1], expected_nonce, env1, env2)} :
       \E rec \in {recover_message(Serialize(WithoutField(vp[1], "proof")), vp[1].proof.jws)} :
          /\ did_cache' = [did_cache EXCEPT !["verifier"] = r.cache]
          /\ RPC_CYCLE' = [RPC_CYCLE EXCEPT !["verifier"] = r.cycle]
          /\ vpres' = [op |-> "verify_vp", vp |-> vp, nonce |-> expected_nonce, now |-> now,
                       res |-> r.res, reason |-> r.reason, createdFor |-> createdFor,
                       tampered |-> tampered,
                       reachable |-> env1.k < max_retries /\ env2.k < max_retries,
                       holderAuth |-> AuthorizedBySome(did_cache["verifier"], registry,
                                                       vp[1].holder, rec.addr),
                       vcsOk |-> \A i \in 1..Len(vp[1].verifiableCredential) :
                                    VcPasses(did_cache["verifier"], registry, now,
                                             vp[1].verifiableCredential[i], vp[1].holder),
                       keyDelegated |-> registry[DidOf("H")]]
    /\ vp' = <<>>
    /\ createdFor' = 0
    /\ tampered' = {}
    /\ UNCHANGED my_vcs
    /\ UNCHANGED <<registry, api_url_pool, vtrace>>
    /\ UNCHANGED audVars
    /\ UNCHANGED extVars

VpNext ==
    \/ RotateHolderKey
    \/ \E nonce \in 1..MaxNonce : CreateVP(nonce)
    \/ \E nonce \in 1..MaxNonce : TamperChallenge(nonce)
    \/ \E i \in 1..MaxVCs : TamperSubject(i, DidOf("V"))
    \/ TamperResign
    \/ \E nonce \in 1..MaxNonce, now \in 0..MaxTime, env1 \in VpEnvs, env2 \in VpEnvs,
          start \in Starts("verifier") :
          VerifyVP(nonce, now, env1, env2, start)

SpecVP == VpInit /\ [][VpNext]_vars

\* C2: a VP produced by create_vp(n1) cannot be made to pass verify_vp for another
\* nonce by a party without the Holder's key: every accepted VP that carries the
\* Holder's signature is accepted for the nonce it was created for.
C2_NonceBound ==
    (/\ vpres.op = "verify_vp"
     /\ vpres.res = "ok"
     /\ vpres.vp[1].proof.jws.signer = OpAddr("H"))
    => vpres.nonce = vpres.createdFor

\* The first sentence of C3: verify_vp returns success only if
\* proof.challenge equals the expected nonce, the signature over the VP
\* without its proof recovers to an address authorized for the holder DID,
\* and every credential passes per-credential validation.
C3_VerifyVpSound ==
    (vpres.op = "verify_vp" /\ vpres.res = "ok") =>
        /\ vpres.vp[1].proof.challenge = vpres.nonce
        /\ vpres.holderAuth
        /\ vpres.vcsOk

\* C3: verify_vp returns success only if the three conditions hold, and
\* whenever one of them fails it returns a failure (False with a reason).
C3_FailureReturned ==
    vpres.op = "verify_vp" =>
        /\ C3_VerifyVpSound
        /\ ~(/\ vpres.vp[1].proof.challenge = vpres.nonce
             /\ vpres.holderAuth
             /\ vpres.vcsOk) => vpres.res = "fail"

MaxExchanges == 3

\* requests from other clients are studied while the Holder's log is this short
MaxLogPairs == 2

\* dict.get(key) with the value that stands for None
Get(data, key, default) == IF key \in DOMAIN data THEN data[key] ELSE default

\* the list stored in the memory file of a counterparty, [] when there is no file
ReadLog(files, did) == IF did \in DOMAIN files THEN files[did] ELSE <<>>

\* hashlib.sha256(text).hexdigest()
Sha256(text) == <<"sha256", text>>

\* json.dumps of a list of objects with sorted keys
DumpList(log) == [i \in 1..Len(log) |-> Serialize(log[i])]

get_snapshot_hash(files, verifier_did) ==
    IF verifier_did \notin DOMAIN files THEN Sha256(DumpList(<<>>))
    ELSE Sha256(DumpList(files[verifier_did]))

append_interaction(files, verifier_did, request_data, response_data) ==
    [d \in (DOMAIN files) \cup {verifier_did} |->
        IF d = verifier_did
        THEN ReadLog(files, verifier_did) \o <<request_data, response_data>>
        ELSE files[d]]

\* the resolver and registry a validator call runs against
Net(pool, start, reg, env1, env2) ==
    [pool |-> pool, start |-> start, reg |-> reg, env1 |-> env1, env2 |-> env2]

verify_incoming_json(cache, cycle, net, json_data) ==
    LET verifier_did == Get(json_data, "verifier_did", NoDid)
        signature == Get(json_data, "verifier_signature", NoSig)
    IN IF verifier_did = NoDid \/ ~signature.present
       THEN Returned(FALSE, "Missing DID or Signature", cache, cycle, 0, 0, <<>>)
       ELSE verify_request_signature(cache, cycle, net.pool, net.start, net.reg,
                                     Serialize(WithoutField(json_data, "verifier_signature")),
                                     signature, verifier_did, net.env1, net.env2)

\* what a handler leaves behind: the HTTP answer, the memory files, the
\* validator state and whether the Brain was invoked
HOut(status, body, files, cache, cycle, brain) ==
    [status |-> status, body |-> body, files |-> files, cache |-> cache, cycle |-> cycle,
     brain |-> brain]

ErrorBody(reason) == [error |-> reason]

BrainOutputs == {"APPROVE", "REJECT", "raise"}

\* POST /auth; decision is what agent_app.invoke does for this request
handle_auth(files, cache, cycle, net, vcs, now, data, decision) ==
    LET verifier_did == Get(data, "verifier_did", NoDid)
        nonce == Get(data, "nonce", 0)
    IN Bind(verify_incoming_json(cache, cycle, net, data), LAMBDA v :
       IF v.ret # "pair"
       THEN HOut(500, ErrorBody("TypeError"), files, v.cache, v.cycle, FALSE)
       ELSE IF ~v.ok
       THEN HOut(401, ErrorBody(v.reason), files, v.cache, v.cycle, FALSE)
       ELSE IF decision = "raise"
       THEN HOut(500, ErrorBody("exception"), files, v.cache, v.cycle, TRUE)
       ELSE IF decision = "APPROVE"
       THEN LET vpr == create_vp(vcs, DidOf("H"), OpAddr("H"), nonce)
            IN HOut(200, vpr, append_interaction(files, verifier_did, data, vpr),
                    v.cache, v.cycle, TRUE)
       ELSE HOut(403, ErrorBody("Request rejected by Agent"), files, v.cache, v.cycle, TRUE))

\* handle_probe with the Brain asked before the signature is checked
handle_probe_brain_first(files, cache, cycle, net, vcs, now, data, decision) ==
    LET verifier_did == Get(data, "verifier_did", NoDid)
    IN IF "task_id" \notin DOMAIN data
       THEN HOut(500, ErrorBody("TypeError"), files, cache, cycle, FALSE)
       ELSE Bind(verify_incoming_json(cache, cycle, net, data), LAMBDA v :
       IF decision = "raise"
       THEN HOut(500, ErrorBody("exception"), files, v.cache, v.cycle, TRUE)
       ELSE IF v.ret # "pair"
       THEN HOut(500, ErrorBody("TypeError"), files, v.cache, v.cycle, TRUE)
       ELSE IF ~v.ok
       THEN HOut(401, ErrorBody(v.reason), files, v.cache, v.cycle, TRUE)
       ELSE LET response_payload == [task_id |-> data.task_id, execution_result |-> decision,
                                     timestamp |-> now]
                signed == [k \in (DOMAIN response_payload) \cup {"signature"} |->
                              IF k = "signature"
                              THEN sign_message(OpAddr("H"), Serialize(response_payload))
                              ELSE response_payload[k]]
            IN HOut(200, signed, append_interaction(files, verifier_did, data, signed),
                    v.cache, v.cycle, TRUE))

\* POST /probe; decision is the Brain's result text, or "raise"
handle_probe(files, cache, cycle, net, vcs, now, data, decision) ==
    LET verifier_did == Get(data, "verifier_did", NoDid)
    IN IF "task_id" \notin DOMAIN data
       THEN HOut(500, ErrorBody("TypeError"), files, cache, cycle, FALSE)
       ELSE Bind(verify_incoming_json(cache, cycle, net, data), LAMBDA v :
       IF v.ret # "pair"
       THEN HOut(500, ErrorBody("TypeError"), files, v.cache, v.cycle, FALSE)
       ELSE IF ~v.ok
       THEN HOut(401, ErrorBody(v.reason), files, v.cache, v.cycle, FALSE)
       ELSE IF decision = "raise"
       THEN HOut(500, ErrorBody("exception"), files, v.cache, v.cycle, TRUE)
       ELSE LET response_payload == [task_id |-> data.task_id, execution_result |-> decision,
                                     timestamp |-> now]
                signed == [k \in (DOMAIN response_payload) \cup {"signature"} |->
                              IF k = "signature"
                              THEN sign_message(OpAddr("H"), Serialize(response_payload))
                              ELSE response_payload[k]]
            IN HOut(200, signed, append_interaction(files, verifier_did, data, signed),
                    v.cache, v.cycle, TRUE))

\* handle_context_hash that hashes the log after appending the exchange
handle_context_hash_late(files, cache, cycle, net, vcs, now, data, decision) ==
    LET verifier_did == Get(data, "verifier_did", NoDid)
        nonce == Get(data, "nonce", 0)
    IN Bind(verify_incoming_json(cache, cycle, net, data), LAMBDA v :
       IF v.ret # "pair"
       THEN HOut(500, ErrorBody("TypeError"), files, v.cache, v.cycle, FALSE)
       ELSE IF ~v.ok
       THEN HOut(401, ErrorBody(v.reason), files, v.cache, v.cycle, FALSE)
       ELSE IF decision = "raise"
       THEN HOut(500, ErrorBody("exception"), files, v.cache, v.cycle, TRUE)
       ELSE IF decision = "APPROVE"
       THEN LET early == [context_hash |-> get_snapshot_hash(files, verifier_did),
                          nonce |-> nonce, timestamp |-> now]
                appended == append_interaction(files, verifier_did, data, early)
                payload == [early EXCEPT !.context_hash = get_snapshot_hash(appended, verifier_did)]
                signed == [k \in (DOMAIN payload) \cup {"signature"} |->
                              IF k = "signature"
                              THEN sign_message(OpAddr("H"), Serialize(payload))
                              ELSE payload[k]]
            IN HOut(200, signed, appended, v.cache, v.cycle, TRUE)
       ELSE HOut(403, ErrorBody("Rejected"), files, v.cache, v.cycle, TRUE))

\* POST /context_hash
handle_context_hash(files, cache, cycle, net, vcs, now, data, decision) ==
    LET verifier_did == Get(data, "verifier_did", NoDid)
        nonce == Get(data, "nonce", 0)
    IN Bind(verify_incoming_json(cache, cycle, net, data), LAMBDA v :
       IF v.ret # "pair"
       THEN HOut(500, ErrorBody("TypeError"), files, v.cache, v.cycle, FALSE)
       ELSE IF ~v.ok
       THEN HOut(401, ErrorBody(v.reason), files, v.cache, v.cycle, FALSE)
       ELSE LET current_hash == get_snapshot_hash(files, verifier_did) IN
            IF decision = "raise"
            THEN HOut(500, ErrorBody("exception"), files, v.cache, v.cycle, TRUE)
            ELSE IF decision = "APPROVE"
            THEN LET payload == [context_hash |-> current_hash, nonce |-> nonce, timestamp |-> now]
                     signed == [k \in (DOMAIN payload) \cup {"signature"} |->
                                   IF k = "signature"
                                   THEN sign_message(OpAddr("H"), Serialize(payload))
                                   ELSE payload[k]]
                 IN HOut(200, signed, append_interaction(files, verifier_did, data, signed),
                         v.cache, v.cycle, TRUE)
            ELSE HOut(403, ErrorBody("Rejected"), files, v.cache, v.cycle, TRUE))

\* the Flask route table
Endpoints == {"/auth", "/probe", "/context_hash"}

Handle(endpoint, files, cache, cycle, net, vcs, now, data, decision) ==
    CASE endpoint = "/auth" -> handle_auth(files, cache, cycle, net, vcs, now, data, decision)
      [] endpoint = "/probe" -> handle_probe(files, cache, cycle, net, vcs, now, data, decision)
      [] OTHER -> handle_context_hash(files, cache, cycle, net, vcs, now, data, decision)

\* POST /reset_memory that removes every memory file
reset_memory_all(files, data) ==
    LET verifier_did == Get(data, "verifier_did", NoDid) IN
    IF verifier_did # NoDid /\ verifier_did \in DOMAIN files
    THEN [status |-> "cleared", files |-> NoFiles]
    ELSE [status |-> "no_op", files |-> files]

\* POST /reset_memory: the file is removed when verifier_did is given and a file exists
reset_memory(files, data) ==
    LET verifier_did == Get(data, "verifier_did", NoDid) IN
    IF verifier_did # NoDid /\ verifier_did \in DOMAIN files
    THEN [status |-> "cleared", files |-> [d \in (DOMAIN files) \ {verifier_did} |-> files[d]]]
    ELSE [status |-> "no_op", files |-> files]

(***************************************************************************)
(* Verifier runtime (agents/verifier/runtime.py)                           *)
(***************************************************************************)
\* obj with obj[field] set to the signature of addr over the canonical form of obj
SignedWith(obj, field, addr) ==
    [k \in (DOMAIN obj) \cup {field} |->
        IF k = field THEN sign_message(addr, Serialize(obj)) ELSE obj[k]]

\* the requests the Verifier builds; n stands for the fresh uuid4 and time.time()
AuthRequest(n) ==
    SignedWith([nonce |-> n, verifier_did |-> DidOf("V"), timestamp |-> n, type |-> "AuthRequest"],
               "verifier_signature", OpAddr("V"))

ProbeRequest(n) ==
    SignedWith([task_id |-> n, prompt |-> "Calculate SHA256", verifier_did |-> DidOf("V"),
                timestamp |-> n, timeout_ms |-> 3000],
               "verifier_signature", OpAddr("V"))

ContextHashCheck(n) ==
    SignedWith([nonce |-> n, verifier_did |-> DidOf("V"), type |-> "ContextHashCheck"],
               "verifier_signature", OpAddr("V"))

RequestFor(endpoint, n) ==
    CASE endpoint = "/auth" -> AuthRequest(n)
      [] endpoint = "/probe" -> ProbeRequest(n)
      [] OTHER -> ContextHashCheck(n)

_append_interaction(files, target_did, req, res) ==
    [d \in (DOMAIN files) \cup {target_did} |->
        IF d = target_did THEN ReadLog(files, target_did) \o <<req, res>> ELSE files[d]]

_get_local_snapshot_hash(files, target_did) ==
    IF target_did \notin DOMAIN files THEN Sha256(DumpList(<<>>))
    ELSE Sha256(DumpList(files[target_did]))

\* a result text that holds the expected hash and a fresh timestamp, and one that does not
GoodResult == "hash and fresh time"

BadResult == "no hash"

_verify_tool_outputs(response_text, expected_hash) == response_text = GoodResult

\* the transport of one HTTP exchange: delivered both ways, never delivered,
\* or handled by the Holder with the answer lost or late
Links == {"ok", "refused", "timeout"}

\* what an execute_* call leaves behind
XOut(success, holder_did, files, cache, cycle, recv) ==
    [success |-> success, holder_did |-> holder_did, files |-> files, cache |-> cache,
     cycle |-> cycle, recv |-> recv]

\* execute_auth; h is what the Holder's handler did with the request
execute_auth(files, cache, cycle, net, now, req, link, h) ==
    IF link # "ok" THEN XOut(FALSE, <<>>, files, cache, cycle, 0)
    ELSE IF h.status # 200 THEN XOut(FALSE, <<>>, files, cache, cycle, h.status)
    ELSE Bind(verify_vp(cache, cycle, net.pool, net.start, net.reg, now, h.body, req.nonce,
                        net.env1, net.env2), LAMBDA r :
            IF r.res = "raise" THEN XOut(FALSE, <<>>, files, r.cache, r.cycle, 200)
            ELSE XOut(r.res = "ok", <<h.body.holder>>,
                      _append_interaction(files, h.body.holder, req, h.body),
                      r.cache, r.cycle, 200))

\* execute_probe; judge is the outcome of the judge chain
execute_probe(files, cache, cycle, holder_did, req, link, h, judge) ==
    IF link # "ok" THEN XOut(FALSE, <<>>, files, cache, cycle, 0)
    ELSE IF h.status # 200 THEN XOut(FALSE, <<>>, files, cache, cycle, h.status)
    ELSE LET passed == _verify_tool_outputs(h.body.execution_result, "expected")
         IN XOut(passed /\ judge # "fail", <<>>,
                 _append_interaction(files, holder_did, req, h.body), cache, cycle, 200)

\* execute_context_check
execute_context_check(files, cache, cycle, holder_did, req, link, h) ==
    IF link # "ok" THEN XOut(FALSE, <<>>, files, cache, cycle, 0)
    ELSE IF h.status # 200 THEN XOut(FALSE, <<>>, files, cache, cycle, h.status)
    ELSE LET remote_hash == h.body.context_hash
             local_hash == _get_local_snapshot_hash(files, holder_did)
         IN XOut(remote_hash = local_hash, <<>>,
                 _append_interaction(files, holder_did, req, h.body), cache, cycle, 200)

(***************************************************************************)
(* One Holder and one Verifier: audits (run), requests from other clients  *)
(* and memory resets, handled one at a time.                               *)
(***************************************************************************)
\* the resolver as a process sees it during one exchange: reachable or down
AuditEnvs == VpEnvs

Down(env) == env.k >= max_retries

Up == CHOOSE e \in AuditEnvs : ~Down(e)

HolderNet(env) == Net(api_url_pool, 1, registry, env, env)

\* the log both sides hold after an earlier session's accepted authentication
EarlierLog ==
    handle_auth(NoFiles, EmptyCache, 0, Net(<<>>, 1, [d \in DIDs |-> TRUE], Up, Up),
                <<GoodVC>>, 0, AuthRequest(0), "APPROVE").files[DidOf("V")]

\* the Holder starts with a credential, or with the stand-in it makes when
\* the Issuer could not be reached; the logs are empty or left equal by an
\* earlier session
Init ==
    /\ registry = [d \in DIDs |-> TRUE]
    /\ api_url_pool = <<>>
    /\ did_cache = [p \in Procs |-> EmptyCache]
    /\ RPC_CYCLE = [p \in Procs |-> 0]
    /\ vtrace = NoTrace
    /\ my_vcs \in {<<GoodVC>>, <<MockVC>>}
    /\ vp = <<>>
    /\ createdFor = 0
    /\ tampered = {}
    /\ vpres = NoVpRes
    /\ \/ hlog = NoFiles /\ vlog = NoFiles
       \/ /\ my_vcs = <<GoodVC>>
          /\ hlog = [d \in {DidOf("V")} |-> EarlierLog]
          /\ vlog = [d \in {DidOf("H")} |-> EarlierLog]
    /\ clock = 0
    /\ target_holder_did = <<>>
    /\ auditPhase = 0 - 1
    /\ done200 = [side \in {"holder", "verifier"} |-> Len(ReadLog(hlog, DidOf("V"))) \div 2]
    /\ last = NoLast
    /\ ExtIdle

EmptyRequest == [k \in {} |-> 0]

\* what a client other than the audited Verifier can post to an endpoint
ClientKinds == {"empty", "unsigned", "nodid", "badsig", "forged", "wrongdid", "valid"}

ClientRequest(endpoint, kind, n) ==
    LET req == RequestFor(endpoint, n)
        base == WithoutField(req, "verifier_signature")
    IN CASE kind = "empty" -> EmptyRequest
         [] kind = "unsigned" -> base
         [] kind = "nodid" -> WithoutField(req, "verifier_did")
         [] kind = "badsig" -> [req EXCEPT !.verifier_signature = BadSig]
         [] kind = "forged" -> SignedWith(base, "verifier_signature", MalloryAddr)
         [] kind = "wrongdid" -> [req EXCEPT !.verifier_did = DidOf("I")]
         [] OTHER -> req

\* the request's signature recovers to an address the DID's document (on
\* chain or cached by the Holder) authorizes
ReqAuthorized(cache, reg, data) ==
    LET did == Get(data, "verifier_did", NoDid)
        sig == Get(data, "verifier_signature", NoSig)
        rec == recover_message(Serialize(WithoutField(data, "verifier_signature")), sig)
    IN /\ did # NoDid
       /\ sig.present
       /\ ~rec.raised
       /\ AuthorizedBySome(cache, reg, did, rec.addr)

LogsEqual == ReadLog(hlog, DidOf("V")) = ReadLog(vlog, DidOf("H"))

\* the part of last that describes how the Holder handled data
Handled(op, endpoint, data, h, env, phase) ==
    Bind(verify_incoming_json(did_cache["holder"], RPC_CYCLE["holder"], HolderNet(env), data),
         LAMBDA v :
       [NoLast EXCEPT !.op = op, !.endpoint = endpoint,
                      !.hasDid = Get(data, "verifier_did", NoDid) # NoDid,
                      !.hasSig = Get(data, "verifier_signature", NoSig).present,
                      !.authorized = ReqAuthorized(did_cache["holder"], registry, data),
                      !.status = h.status,
                      !.reasonKept = v.ret = "pair" /\ h.body = ErrorBody(v.reason),
                      !.verified = v.ret = "pair" /\ v.ok,
                      !.brain = h.brain, !.hlogChanged = h.files # hlog, !.reached = TRUE,
                      !.phaseBefore = phase])

\* a client posts a request to a Holder endpoint
HolderRequest(endpoint, kind, decision, env) ==
    /\ clock < MaxExchanges
    /\ Len(ReadLog(hlog, DidOf("V"))) < 2 * MaxLogPairs
    /\ \E data \in {ClientRequest(endpoint, kind, clock + 1)} :
       \E h \in {Handle(endpoint, hlog, did_cache["holder"], RPC_CYCLE["holder"], HolderNet(env),
                         my_vcs, clock + 1, data, decision)} :
          /\ hlog' = h.files
          /\ did_cache' = [did_cache EXCEPT !["holder"] = h.cache]
          /\ RPC_CYCLE' = [RPC_CYCLE EXCEPT !["holder"] = h.cycle]
          /\ clock' = IF h.status = 200 THEN clock + 1 ELSE clock
          /\ done200' = [done200 EXCEPT !["holder"] = IF h.status = 200 THEN @ + 1 ELSE @]
          /\ auditPhase' = IF h.files # hlog THEN 0 - 1 ELSE auditPhase
          /\ last' = Handled("request", endpoint, data, h, env, auditPhase)
    /\ UNCHANGED <<vlog, target_holder_did>>
    /\ UNCHANGED <<registry, api_url_pool, vtrace>>
    /\ UNCHANGED vpVars
    /\ UNCHANGED extVars

\* POST /reset_memory
ResetMemory(data) ==
    /\ hlog' = reset_memory(hlog, data).files
    /\ done200' = [done200 EXCEPT !["holder"] = IF hlog' # hlog THEN 0 ELSE @]
    /\ auditPhase' = IF hlog' # hlog THEN 0 - 1 ELSE auditPhase
    /\ last' = [NoLast EXCEPT !.op = "reset", !.hlogChanged = hlog' # hlog,
                              !.phaseBefore = auditPhase]
    /\ UNCHANGED <<vlog, clock, target_holder_did>>
    /\ UNCHANGED valVars
    /\ UNCHANGED vpVars
    /\ UNCHANGED extVars

\* run() begins: target_holder_did = None
StartRun ==
    /\ target_holder_did' = <<>>
    /\ auditPhase' = IF LogsEqual THEN 0 ELSE 0 - 1
    /\ last' = [NoLast EXCEPT !.op = "start", !.phaseBefore = auditPhase]
    /\ UNCHANGED <<hlog, vlog, clock, done200>>
    /\ UNCHANGED valVars
    /\ UNCHANGED vpVars
    /\ UNCHANGED extVars

JudgeOutputs == {"pass", "fail", "error"}

\* the part of last that describes one exchange started by the Verifier
Audited(op, endpoint, data, h, link, decision, eh, ev, x) ==
    LET seen == IF link = "refused"
                THEN [NoLast EXCEPT !.op = op, !.endpoint = endpoint, !.hasDid = TRUE,
                                    !.hasSig = TRUE, !.phaseBefore = auditPhase,
                                    !.authorized = ReqAuthorized(did_cache["holder"], registry, data)]
                ELSE Handled(op, endpoint, data, h, eh, auditPhase)
    IN [seen EXCEPT !.vlogChanged = x.files # vlog, !.recv = x.recv, !.success = x.success,
                    !.fault = link # "ok" \/ decision = "raise" \/ Down(eh) \/ Down(ev),
                    !.approved = decision \notin {"REJECT", "raise"}]

\* what one exchange leaves on both sides; h is the Holder's handling of the
\* request, which did not happen when the connection was refused
Exchange(link, h, x) ==
    /\ hlog' = IF link = "refused" THEN hlog ELSE h.files
    /\ vlog' = x.files
    /\ did_cache' = [p \in Procs |->
                        IF p = "verifier" THEN x.cache
                        ELSE IF link = "refused" THEN did_cache[p] ELSE h.cache]
    /\ RPC_CYCLE' = [p \in Procs |->
                        IF p = "verifier" THEN x.cycle
                        ELSE IF link = "refused" THEN RPC_CYCLE[p] ELSE h.cycle]
    /\ clock' = clock + 1
    /\ done200' = [side \in {"holder", "verifier"} |->
                      IF side = "holder"
                      THEN done200[side] + (IF link # "refused" /\ h.status = 200 THEN 1 ELSE 0)
                      ELSE done200[side] + (IF x.recv = 200 THEN 1 ELSE 0)]

\* INITIATE_AUTH
ExecuteAuth(link, decision, eh, ev) ==
    /\ clock < MaxExchanges
    /\ \E req \in {AuthRequest(clock + 1)} :
       \E h \in {handle_auth(hlog, did_cache["holder"], RPC_CYCLE["holder"], HolderNet(eh),
                              my_vcs, clock + 1, req, decision)} :
       \E x \in {execute_auth(vlog, did_cache["verifier"], RPC_CYCLE["verifier"],
                               Net(api_url_pool, 1, registry, ev, ev), 0, req, link, h)} :
          /\ Exchange(link, h, x)
          /\ target_holder_did' = IF x.success THEN x.holder_did ELSE target_holder_did
          /\ auditPhase' = IF auditPhase >= 0 /\ x.success THEN 1 ELSE 0 - 1
          /\ last' = Audited("auth", "/auth", req, h, link, decision, eh, ev, x)
    /\ UNCHANGED <<registry, api_url_pool, vtrace>>
    /\ UNCHANGED vpVars
    /\ UNCHANGED extVars

\* INITIATE_PROBE
ExecuteProbe(link, decision, judge, eh) ==
    /\ clock < MaxExchanges
    /\ target_holder_did # <<>>
    /\ \E req \in {ProbeRequest(clock + 1)} :
       \E h \in {handle_probe(hlog, did_cache["holder"], RPC_CYCLE["holder"], HolderNet(eh),
                               my_vcs, clock + 1, req, decision)} :
       \E x \in {execute_probe(vlog, did_cache["verifier"], RPC_CYCLE["verifier"],
                                target_holder_did[1], req, link, h, judge)} :
          /\ Exchange(link, h, x)
          /\ auditPhase' = IF auditPhase = 1 /\ x.recv = 200 THEN 2 ELSE 0 - 1
          /\ last' = Audited("probe", "/probe", req, h, link, decision, eh, eh, x)
    /\ UNCHANGED target_holder_did
    /\ UNCHANGED <<registry, api_url_pool, vtrace>>
    /\ UNCHANGED vpVars
    /\ UNCHANGED extVars

\* INITIATE_CONTEXT_CHECK
ExecuteContextCheck(link, decision, eh) ==
    /\ clock < MaxExchanges
    /\ target_holder_did # <<>>
    /\ \E req \in {ContextHashCheck(clock + 1)} :
       \E h \in {handle_context_hash(hlog, did_cache["holder"], RPC_CYCLE["holder"],
                                      HolderNet(eh), my_vcs, clock + 1, req, decision)} :
       \E x \in {execute_context_check(vlog, did_cache["verifier"], RPC_CYCLE["verifier"],
                                        target_holder_did[1], req, link, h)} :
          /\ Exchange(link, h, x)
          /\ auditPhase' = 0 - 1
          /\ last' = Audited("context", "/context_hash", req, h, link, decision, eh, eh, x)
    /\ UNCHANGED target_holder_did
    /\ UNCHANGED <<registry, api_url_pool, vtrace>>
    /\ UNCHANGED vpVars
    /\ UNCHANGED extVars

\* the Brain's answer matters only to a request that is signed, and the
\* resolver only to one whose signature can be recovered
ClientInputs ==
    {c \in [kind : ClientKinds, decision : BrainOutputs, env : AuditEnvs] :
        /\ c.kind \notin {"forged", "valid"} => c.decision = "APPROVE"
        /\ c.kind \in {"empty", "unsigned", "nodid", "badsig"} => ~Down(c.env)}

\* at most one fault per exchange: the transport, or one side's resolver
Faults ==
    {f \in [link : Links, eh : AuditEnvs, ev : AuditEnvs] :
        Cardinality({f.link} \ {"ok"}) + Cardinality({e \in {<<"h", f.eh>>, <<"v", f.ev>>} : Down(e[2])}) <= 1}

HolderFaults == {f \in Faults : ~Down(f.ev)}

Next ==
    \/ \E endpoint \in Endpoints, decision \in {"APPROVE", "raise"} :
          HolderRequest(endpoint, "valid", decision, Up)
    \/ \E data \in {EmptyRequest, [verifier_did |-> DidOf("V")]} : ResetMemory(data)
    \/ StartRun
    \/ \E f \in Faults, decision \in BrainOutputs : ExecuteAuth(f.link, decision, f.eh, f.ev)
    \/ \E f \in HolderFaults, decision \in {GoodResult, BadResult, "raise"},
          judge \in JudgeOutputs :
          ExecuteProbe(f.link, decision, judge, f.eh)
    \/ \E f \in HolderFaults, decision \in BrainOutputs :
          ExecuteContextCheck(f.link, decision, f.eh)

Spec == Init /\ [][Next]_vars

(***************************************************************************)
(* The Holder's endpoints on their own, posted to by arbitrary clients.    *)
(***************************************************************************)
HolderNext ==
    \/ \E endpoint \in Endpoints, c \in ClientInputs :
          HolderRequest(endpoint, c.kind, c.decision, c.env)
    \/ \E data \in {EmptyRequest, [verifier_did |-> DidOf("V")]} : ResetMemory(data)

SpecHolder == Init /\ [][HolderNext]_vars

(***************************************************************************)
(* Properties of the Holder's endpoints                                    *)
(***************************************************************************)
\* C1: on /auth, /probe and /context_hash a request that carries
\* verifier_did and verifier_signature, but whose signature does not recover
\* to an address authorized for verifier_did, is answered 401 with the
\* validator's reason, never 200 and never 500.
C1_Unauthorized401 ==
    (last.reached /\ last.hasDid /\ last.hasSig /\ ~last.authorized)
        => (last.status = 401 /\ last.reasonKept)

C9_ContextCheckPasses ==
    (/\ last.op = "context"
     /\ last.phaseBefore = 2
     /\ ~last.fault
     /\ last.approved)
    => (/\ last.recv = 200
        /\ last.success
        /\ LogsEqual)

\* an audit that began from the equal logs of an earlier session passed
\* its context check
C9_Witness ==
    /\ last.op = "context"
    /\ last.phaseBefore = 2
    /\ last.success
    /\ Len(ReadLog(vlog, DidOf("H"))) = 2 * (MaxExchanges + 1)

\* the entries of a log are (request, response) pairs
Paired(log) ==
    /\ Len(log) % 2 = 0
    /\ \A i \in 1..Len(log) : ("verifier_signature" \in DOMAIN log[i]) <=> (i % 2 = 1)

\* C10: every interaction log consists of (request, response) pairs, one
\* pair per exchange that completed with a 200 response.
C10_PairPerCompletedExchange ==
    /\ Paired(ReadLog(hlog, DidOf("V")))
    /\ Paired(ReadLog(vlog, DidOf("H")))
    /\ Len(ReadLog(hlog, DidOf("V"))) = 2 * done200["holder"]
    /\ Len(ReadLog(vlog, DidOf("H"))) = 2 * done200["verifier"]

(***************************************************************************)
(* Issuer service (_ops_services/issuer_server.py)                         *)
(***************************************************************************)
\* accounts["issuer"]["address"]: the Issuer's DID is derived from the
\* address of the key it signs with
IssuerAddr == AdminAddr("I")

\* obj[key] = value on a Python dict
SetKey(obj, key, value) ==
    [k \in (DOMAIN obj) \cup {key} |-> IF k = key THEN value ELSE obj[k]]

\* a JSON value that is a string where an object is expected
JsonString(text) == [string |-> text]

IsObject(value) == "string" \notin DOMAIN value

\* the content of a file json.load rejects
NotJson == [invalid |-> TRUE]

\* get_iso_time(offset_days) at time now, in days
get_iso_time(now, offset_days) == now + offset_days

\* templates a schema directory may hold
FullTemplate ==
    [type |-> "Audit_License", credentialSubject |-> [id |-> NoDid, role |-> "auditor"],
     validFrom |-> 1000, validUntil |-> 2000]

BareTemplate == [type |-> "Agent_License"]

DatedTemplate ==
    [type |-> "Audit_License", credentialSubject |-> [role |-> "auditor"], validUntil |-> 2000]

StringSubjectTemplate ==
    [type |-> "Audit_License", credentialSubject |-> JsonString("holder")]

Templates == {FullTemplate, BareTemplate, DatedTemplate, StringSubjectTemplate}

\* file names of the schema directory as <<stem, suffix>>, in sorted order
FileOrder == <<<<"a", ".json">>, <<"b", ".json">>, <<"b", ".txt">>>>

FileNames == {FileOrder[i] : i \in 1..Len(FileOrder)}

\* the schema directory: does it exist, and its files by name
SchemaDir(files) == [exists |-> TRUE, files |-> files]

\* os.path.exists(SCHEMA_DIR) is false
NoDir == [exists |-> FALSE, files |-> <<>>]

\* what process_single_template leaves: the credential, or an exception
TOut(raised, vc) == [raised |-> raised, vc |-> vc]

\* process_single_template that stamps the validity period on every credential
process_single_template_restamped(template_data, applicant_did, now) ==
    IF "credentialSubject" \in DOMAIN template_data /\ ~IsObject(template_data.credentialSubject)
    THEN TOut(TRUE, <<>>)
    ELSE Bind(SetKey(SetKey(SetKey(SetKey(template_data, "credentialSubject",
                        IF "credentialSubject" \in DOMAIN template_data
                        THEN SetKey(template_data.credentialSubject, "id", applicant_did)
                        ELSE [id |-> applicant_did]),
                    "issuer", <<"did:ethr:sepolia", IssuerAddr>>),
                    "validFrom", get_iso_time(now, 0)),
                    "validUntil", get_iso_time(now, 365)),
              LAMBDA vc_payload :
         TOut(FALSE,
              SetKey(vc_payload, "proof",
                     [type |-> "EcdsaSecp256k1Signature2019",
                      created |-> get_iso_time(now, 0),
                      proofPurpose |-> "assertionMethod",
                      verificationMethod |-> <<<<"did:ethr:sepolia", IssuerAddr>>, "#controller">>,
                      jws |-> sign_message(IssuerAddr, Serialize(vc_payload))])))

\* process_single_template: the copy json.loads(json.dumps(template_data))
\* of a value that json.load produced is that value
process_single_template(template_data, applicant_did, now) ==
    IF "credentialSubject" \in DOMAIN template_data /\ ~IsObject(template_data.credentialSubject)
    THEN TOut(TRUE, <<>>)
    ELSE Bind(SetKey(SetKey(SetKey(SetKey(template_data, "credentialSubject",
                        IF "credentialSubject" \in DOMAIN template_data
                        THEN SetKey(template_data.credentialSubject, "id", applicant_did)
                        ELSE [id |-> applicant_did]),
                    "issuer", <<"did:ethr:sepolia", IssuerAddr>>),
                    "validFrom", IF "validFrom" \in DOMAIN template_data
                                 THEN template_data.validFrom ELSE get_iso_time(now, 0)),
                    "validUntil", IF "validUntil" \in DOMAIN template_data
                                  THEN template_data.validUntil ELSE get_iso_time(now, 365)),
              LAMBDA vc_payload :
         TOut(FALSE,
              SetKey(vc_payload, "proof",
                     [type |-> "EcdsaSecp256k1Signature2019",
                      created |-> get_iso_time(now, 0),
                      proofPurpose |-> "assertionMethod",
                      verificationMethod |-> <<<<"did:ethr:sepolia", IssuerAddr>>, "#controller">>,
                      jws |-> sign_message(IssuerAddr, Serialize(vc_payload))])))

\* sorted([f for f in os.listdir(SCHEMA_DIR) if f.endswith(".json")])
TemplateFiles(schemas) ==
    SelectSeq(FileOrder, LAMBDA f : f \in DOMAIN schemas.files /\ f[2] = ".json")

\* the loop of generate_all_vcs from the i-th file on: a file that does not
\* load or a template that does not process is reported and skipped
RECURSIVE issue_from(_, _, _, _, _)
issue_from(i, files, schemas, applicant_did, now) ==
    IF i > Len(files) THEN <<>>
    ELSE IF "invalid" \in DOMAIN schemas.files[files[i]]
    THEN issue_from(i + 1, files, schemas, applicant_did, now)
    ELSE Bind(process_single_template(schemas.files[files[i]], applicant_did, now), LAMBDA r :
         (IF r.raised THEN <<>> ELSE <<r.vc>>)
         \o issue_from(i + 1, files, schemas, applicant_did, now))

generate_all_vcs(schemas, applicant_did, now) ==
    IF ~schemas.exists THEN <<>>
    ELSE issue_from(1, TemplateFiles(schemas), schemas, applicant_did, now)

\* what handle_issue_vc leaves: the HTTP answer and the validator state
IOut(status, body, cache, cycle) ==
    [status |-> status, body |-> body, cache |-> cache, cycle |-> cycle]

\* POST /issue_vc
handle_issue_vc(cache, cycle, net, schemas, now, data) ==
    LET applicant_did == Get(data, "applicant", NoDid)
        signature == Get(data, "signature", NoSig)
    IN IF applicant_did = NoDid \/ ~signature.present
       THEN IOut(400, ErrorBody("Missing applicant or signature"), cache, cycle)
       ELSE Bind(verify_request_signature(cache, cycle, net.pool, net.start, net.reg,
                                          Serialize(WithoutField(data, "signature")),
                                          signature, applicant_did, net.env1, net.env2),
                 LAMBDA v :
            IF v.ret = "None"
            THEN IOut(500, ErrorBody("cannot unpack non-iterable NoneType object"), v.cache, v.cycle)
            ELSE IF ~v.ok
            THEN IOut(401, ErrorBody(v.reason), v.cache, v.cycle)
            ELSE IOut(200, generate_all_vcs(schemas, applicant_did, now), v.cache, v.cycle))

(***************************************************************************)
(* The Issuer on its own: applications posted by arbitrary clients while   *)
(* the applicant's delegation changes on chain.                            *)
(***************************************************************************)
\* the directories the Issuer may be started on
SchemaDirs ==
    {NoDir} \cup
    UNION {{SchemaDir(files) : files \in [names -> Templates \cup {NotJson}]} :
              names \in {n \in SUBSET FileNames : <<"b", ".txt">> \in n => <<"a", ".json">> \in n}}

CredentialTypes == {"Audit_License", "Unknown_License"}

IssueKinds ==
    {"empty", "unsigned", "noapplicant", "badsig", "forged", "tampered", "valid", "owner"}

\* the body of a POST /issue_vc: execute_request_vc's application, or what
\* another client makes of it
Application(kind, credential_type, n) ==
    LET payload == [type |-> "CredentialApplication", credentialType |-> credential_type,
                    applicant |-> DidOf("H"), timestamp |-> n, nonce |-> n]
        req == SignedWith(payload, "signature", OpAddr("H"))
    IN CASE kind = "empty" -> EmptyRequest
         [] kind = "unsigned" -> payload
         [] kind = "noapplicant" -> WithoutField(req, "applicant")
         [] kind = "badsig" -> [req EXCEPT !.signature = BadSig]
         [] kind = "forged" -> SignedWith(payload, "signature", MalloryAddr)
         [] kind = "tampered" -> [req EXCEPT !.credentialType = "Root_License"]
         [] kind = "owner" -> SignedWith(payload, "signature", AdminAddr("H"))
         [] OTHER -> req

\* the application's signature recovers to an address the applicant's
\* document (on chain or cached by the Issuer) authorizes
ApplicationAuthorized(cache, reg, data) ==
    LET did == Get(data, "applicant", NoDid)
        sig == Get(data, "signature", NoSig)
        rec == recover_message(Serialize(WithoutField(data, "signature")), sig)
    IN /\ did # NoDid
       /\ sig.present
       /\ ~rec.raised
       /\ AuthorizedBySome(cache, reg, did, rec.addr)

\* the resolver answers at once, or fails max_retries times
IssuerEnvs == {e \in AuditEnvs : e.kind = "exit_nonzero" /\ e.k \in {0, max_retries}}

IssuerInit ==
    /\ registry = [d \in DIDs |-> TRUE]
    /\ api_url_pool = <<>>
    /\ did_cache = [p \in {"issuer"} |-> EmptyCache]
    /\ RPC_CYCLE = [p \in {"issuer"} |-> 0]
    /\ vtrace = NoTrace
    /\ VpIdle
    /\ AuditIdle
    /\ vc_schemas \in SchemaDirs
    /\ issued = NoIssued
    /\ RunIdle
    /\ IpfsIdle
    /\ LateIdle

\* one POST /issue_vc, handled to its answer
IssueVc(kind, credential_type, now, env) ==
    \E data \in {Application(kind, credential_type, now)} :
    \E h \in {handle_issue_vc(did_cache["issuer"], RPC_CYCLE["issuer"],
                              Net(api_url_pool, 1, registry, env, env), vc_schemas, now, data)} :
        /\ did_cache' = [did_cache EXCEPT !["issuer"] = h.cache]
        /\ RPC_CYCLE' = [RPC_CYCLE EXCEPT !["issuer"] = h.cycle]
        /\ issued' = [status |-> h.status, body |-> h.body,
                      applicant |-> Get(data, "applicant", NoDid),
                      hasSig |-> Get(data, "signature", NoSig).present,
                      authorized |-> ApplicationAuthorized(did_cache["issuer"], registry, data),
                      credentialType |-> credential_type, now |-> now]
        /\ UNCHANGED <<registry, api_url_pool, vtrace, vc_schemas>>
        /\ UNCHANGED vpVars
        /\ UNCHANGED audVars
        /\ UNCHANGED runVars
        /\ UNCHANGED ipfsVars
        /\ UNCHANGED lateVars

IssuerNext ==
    \/ UpdateRegistry(DidOf("H"))
    \/ \E kind \in IssueKinds, credential_type \in CredentialTypes, now \in 0..MaxTime,
          env \in IssuerEnvs :
          IssueVc(kind, credential_type, now, env)

SpecIssuer == IssuerInit /\ [][IssuerNext]_vars

(***************************************************************************)
(* Properties of the Issuer                                                *)
(***************************************************************************)
\* C11: an application that carries an applicant and a signature, whose
\* signature does not verify against the applicant DID, is answered 401 and
\* with no credential (never 200, never 500).
C11_BadSignature401 ==
    (issued.status # 0 /\ issued.applicant # NoDid /\ issued.hasSig /\ ~issued.authorized)
        => issued.status = 401

\* the i-th credential of the answer comes from template t
IssuedFrom(vc, t, applicant) ==
    /\ vc.credentialSubject.id = applicant
    /\ vc.issuer = DidOf("I")
    /\ vc.type = t.type
    /\ "validFrom" \in DOMAIN t => vc.validFrom = t.validFrom
    /\ "validUntil" \in DOMAIN t => vc.validUntil = t.validUntil

\* C12: a verified application is answered with exactly one credential per
\* *.json file of the schema directory, in file name order, whatever
\* credentialType asks for; each has the applicant as subject, the Issuer as
\* issuer and the validity period its template gives.
C12_OnePerTemplate ==
    issued.status = 200 =>
        LET files == TemplateFiles(vc_schemas) IN
        /\ Len(issued.body) = Len(files)
        /\ \A i \in 1..Len(files) :
              IssuedFrom(issued.body[i], vc_schemas.files[files[i]], issued.applicant)

\* the *.json files that load as an object whose credentialSubject, when
\* present, is an object
UsableFiles(schemas) ==
    SelectSeq(TemplateFiles(schemas),
              LAMBDA f : /\ "invalid" \notin DOMAIN schemas.files[f]
                         /\ "credentialSubject" \in DOMAIN schemas.files[f]
                               => IsObject(schemas.files[f].credentialSubject))

\* C12 as amended: one credential per *.json file that loads and whose
\* credentialSubject, when present, is an object; the other files are skipped.
C12_OnePerUsableTemplate ==
    issued.status = 200 =>
        LET files == UsableFiles(vc_schemas) IN
        /\ Len(issued.body) = Len(files)
        /\ \A i \in 1..Len(files) :
              IssuedFrom(issued.body[i], vc_schemas.files[files[i]], issued.applicant)

\* two credentials were issued, one of them from a template that gives a
\* validity period, to an application that asked for another type
C12_Witness ==
    /\ issued.status = 200
    /\ issued.credentialType = "Unknown_License"
    /\ Len(issued.body) = 2
    /\ vc_schemas.files[<<"a", ".json">>] = BareTemplate
    /\ vc_schemas.files[<<"b", ".json">>] = FullTemplate
    /\ <<"b", ".txt">> \in DOMAIN vc_schemas.files

(***************************************************************************)
(* VerifierRuntime.run (agents/verifier/runtime.py) and the paired stress  *)
(* driver (_experiments/stress_test_p2p.py).  Of the locals of run(),      *)
(* current_input and chat_history are left out: only the Controller reads  *)
(* them, and the Controller's output is arbitrary.  Times are kept as      *)
(* "was set" flags: time.time() is positive.                               *)
(***************************************************************************)
MaxTurns == 3

NumWorkers == 2

\* a worker process before run() is called; sound marks a pair whose own
\* audit would succeed: the worker starts, its Controller asks for the three
\* stages in order, and its Holder passes each
NewWorker ==
    [pc |-> "init", turn |-> 0, invoked |-> 0, contacted |-> FALSE,
     target_holder_did |-> FALSE, t_auth_done |-> FALSE, t_probe_done |-> FALSE,
     my_stats |-> {}, context_ok |-> FALSE, sound |-> FALSE]

\* multiprocessing.Barrier(parties)
Barrier(parties) == [supplied |-> TRUE, parties |-> parties, count |-> 0, state |-> "filling"]

\* multiprocessing.Queue()
Queue == [supplied |-> TRUE, items |-> <<>>]

\* the words the dispatch of run() looks for in the command line
Keywords ==
    {"REQUEST_VC", "INITIATE_AUTH", "INITIATE_PROBE", "INITIATE_CONTEXT_CHECK",
     "FINISH_AUDIT", "ABORT"}

\* what agent_chain.invoke does in one turn: it raises, or answers a text
\* without a COMMAND: line, or one whose first COMMAND: line holds words
ControllerOutputs ==
    {[raise |-> TRUE, command |-> FALSE, words |-> {}],
     [raise |-> FALSE, command |-> FALSE, words |-> {}]}
    \cup {[raise |-> FALSE, command |-> TRUE, words |-> ws] :
             ws \in {{}} \cup {{k} : k \in Keywords} \cup {{"INITIATE_AUTH", "ABORT"}}}

\* how the executed action ends
Outcomes == {"success", "fail", "raise"}

\* while turn <= max_turns
loop_continues_inclusive(turn, bound) == turn <= bound

\* while turn < max_turns
loop_continues(turn, bound) == turn < bound

\* back to the head of the while loop
NextTurn(st, bound) ==
    [st EXCEPT !.pc = IF loop_continues(st.turn, bound) THEN "loop" ELSE "returned"]

\* what a step of run() leaves: the worker's locals, the barrier, and the
\* records put on the queue
ROut(st, barrier, put) ==
    [st |-> st, barrier |-> barrier, put |-> put, current_input |-> ""]

\* current_input = text: what the Controller is told at its next invocation
Say(r, text) == [r EXCEPT !.current_input = text]

\* run() that does not wait on the barrier
run_start_no_wait(st, barrier, bound) ==
    ROut(NextTurn(st, bound), barrier, <<>>)

\* run() up to the while loop: barrier.wait(timeout=600) when a barrier is
\* supplied.  The last party to arrive releases the barrier; a party that
\* arrives at a broken barrier gets BrokenBarrierError and run() returns.
run_start(st, barrier, bound) ==
    IF ~barrier.supplied THEN ROut(NextTurn(st, bound), barrier, <<>>)
    ELSE IF barrier.state = "broken"
    THEN ROut([st EXCEPT !.pc = "barrier_failed"], barrier, <<>>)
    ELSE IF barrier.count + 1 = barrier.parties
    THEN ROut(NextTurn(st, bound), [barrier EXCEPT !.count = @ + 1, !.state = "released"], <<>>)
    ELSE ROut([st EXCEPT !.pc = "barrier"], [barrier EXCEPT !.count = @ + 1], <<>>)

\* a run that lets probe and context check through without a Holder DID
auth_required_never(holder_did) == FALSE

\* if not target_holder_did: "Error: Auth required."
auth_required(holder_did) == ~holder_did

\* a run that takes the probe as timed whether or not it passed
probe_timed_always(t_probe_done) == TRUE

\* if t_probe_done > 0
probe_timed(t_probe_done) == t_probe_done

\* one iteration of the while loop of run()
run_turn(st, bound, queue, name, out, outcome) ==
    LET s1 == [st EXCEPT !.turn = @ + 1, !.invoked = @ + 1, !.context_ok = FALSE]
        sent == [s1 EXCEPT !.contacted = TRUE]
    IN IF out.raise THEN ROut([s1 EXCEPT !.pc = "returned"], <<>>, <<>>)
       ELSE IF ~out.command
       THEN Say(ROut(NextTurn(s1, bound), <<>>, <<>>), "Error: Output 'COMMAND:' line.")
       ELSE IF "REQUEST_VC" \in out.words
       THEN Say(ROut(NextTurn(s1, bound), <<>>, <<>>), "System: VC")
       ELSE IF "INITIATE_AUTH" \in out.words
       THEN IF outcome = "success"
            THEN Say(ROut(NextTurn([sent EXCEPT !.target_holder_did = TRUE, !.t_auth_done = TRUE,
                                                !.my_stats = @ \cup {"T1", "T2", "T3", "T4"}],
                                   bound),
                          <<>>, <<>>), "Auth SUCCESS")
            ELSE Say(ROut(NextTurn(sent, bound), <<>>, <<>>), "Auth FAILED")
       ELSE IF "INITIATE_PROBE" \in out.words
       THEN IF auth_required(s1.target_holder_did)
            THEN Say(ROut(NextTurn(s1, bound), <<>>, <<>>), "Error: Auth required.")
            ELSE IF outcome = "raise" THEN ROut([s1 EXCEPT !.pc = "raised"], <<>>, <<>>)
            ELSE IF outcome = "success" /\ s1.t_auth_done
            THEN Say(ROut(NextTurn([sent EXCEPT !.t_probe_done = TRUE,
                                                !.my_stats = @ \cup {"T5", "T6", "T7", "T8",
                                                                     "SLA_Load_Ratio"}], bound),
                          <<>>, <<>>), "Probe PASS")
            ELSE Say(ROut(NextTurn(sent, bound), <<>>, <<>>),
                     IF outcome = "success" THEN "Probe PASS" ELSE "Probe FAIL")
       ELSE IF "INITIATE_CONTEXT_CHECK" \in out.words
       THEN IF auth_required(s1.target_holder_did)
            THEN Say(ROut(NextTurn(s1, bound), <<>>, <<>>), "Error: Auth required.")
            ELSE IF outcome # "success"
            THEN Say(ROut(NextTurn(sent, bound), <<>>, <<>>), "Context FAIL")
            ELSE IF ~probe_timed(s1.t_probe_done)
            THEN Say(ROut(NextTurn([sent EXCEPT !.context_ok = TRUE], bound), <<>>, <<>>),
                     "Context PASS")
            ELSE Bind([sent EXCEPT !.context_ok = TRUE,
                                   !.my_stats = @ \cup {"T9", "T10", "T11", "T12"}],
                      LAMBDA s2 :
                 IF queue.supplied
                 THEN Say(ROut([s2 EXCEPT !.pc = "returned", !.my_stats = @ \cup {"Verifier"}],
                               <<>>,
                               <<[Verifier |-> name, keys |-> s2.my_stats \cup {"Verifier"}]>>),
                          "Context PASS")
                 ELSE Say(ROut(NextTurn(s2, bound), <<>>, <<>>), "Context PASS"))
       ELSE IF "FINISH_AUDIT" \in out.words THEN ROut([s1 EXCEPT !.pc = "returned"], <<>>, <<>>)
       ELSE IF "ABORT" \in out.words THEN ROut([s1 EXCEPT !.pc = "returned"], <<>>, <<>>)
       ELSE Say(ROut(NextTurn(s1, bound), <<>>, <<>>), "Unknown Command.")

\* the variables the workers and the driver leave alone
notRunVars == <<valVars, vpVars, audVars, issVars, ipfsVars, lateVars>>

\* VerifierRuntime(...) raises or exits the process (sys.exit(1) in
\* _init_components): run() is never called
InitFails(w) ==
    /\ w \in DOMAIN workers
    /\ workers[w].pc = "init"
    /\ ~workers[w].sound
    /\ workers' = [workers EXCEPT ![w].pc = "exited"]
    /\ UNCHANGED <<max_turns, start_barrier, stats_queue, driver>>
    /\ UNCHANGED notRunVars

\* the worker calls run() and comes to the barrier or to the loop
RunStart(w) ==
    /\ w \in DOMAIN workers
    /\ workers[w].pc = "init"
    /\ \E r \in {run_start(workers[w], start_barrier, max_turns)} :
          /\ workers' = [workers EXCEPT ![w] = r.st]
          /\ start_barrier' = r.barrier
    /\ UNCHANGED <<max_turns, stats_queue, driver>>
    /\ UNCHANGED notRunVars

\* barrier.wait returns: all parties have arrived
BarrierPass(w) ==
    /\ w \in DOMAIN workers
    /\ workers[w].pc = "barrier"
    /\ start_barrier.state = "released"
    /\ workers' = [workers EXCEPT ![w] = NextTurn(@, max_turns)]
    /\ UNCHANGED <<max_turns, start_barrier, stats_queue, driver>>
    /\ UNCHANGED notRunVars

\* barrier.wait raises BrokenBarrierError: this party's 600 seconds ran out,
\* which breaks the barrier, or the barrier was broken by another party
BarrierFails(w) ==
    /\ w \in DOMAIN workers
    /\ workers[w].pc = "barrier"
    /\ start_barrier.state # "released"
    /\ workers' = [workers EXCEPT ![w].pc = "barrier_failed"]
    /\ start_barrier' = [start_barrier EXCEPT !.state = "broken"]
    /\ UNCHANGED <<max_turns, stats_queue, driver>>
    /\ UNCHANGED notRunVars

\* one turn of the loop
Turn(w, out, outcome) ==
    /\ w \in DOMAIN workers
    /\ workers[w].pc = "loop"
    /\ \E r \in {run_turn(workers[w], max_turns, stats_queue, w, out, outcome)} :
          /\ workers' = [workers EXCEPT ![w] = r.st]
          /\ stats_queue' = [stats_queue EXCEPT !.items = @ \o r.put]
    /\ UNCHANGED <<max_turns, start_barrier, driver>>
    /\ UNCHANGED notRunVars

RunInit ==
    /\ registry = [d \in DIDs |-> TRUE]
    /\ api_url_pool = <<>>
    /\ did_cache = [p \in Procs |-> EmptyCache]
    /\ RPC_CYCLE = [p \in Procs |-> 0]
    /\ vtrace = NoTrace
    /\ VpIdle
    /\ AuditIdle
    /\ IssuerIdle
    /\ IpfsIdle
    /\ LateIdle
    /\ workers = [w \in 1..NumWorkers |-> NewWorker]
    /\ max_turns \in 0..MaxTurns
    /\ start_barrier \in {NoBarrier, Barrier(NumWorkers)}
    /\ stats_queue \in {NoQueue, Queue}
    /\ driver = NoDriver

RunNext ==
    \/ \E w \in 1..NumWorkers : InitFails(w)
    \/ \E w \in 1..NumWorkers : RunStart(w)
    \/ \E w \in 1..NumWorkers : BarrierPass(w)
    \/ \E w \in 1..NumWorkers : BarrierFails(w)
    \/ \E w \in 1..NumWorkers, out \in ControllerOutputs, outcome \in Outcomes :
          Turn(w, out, outcome)

\* every call of the Controller and every executed action returns (each has
\* a timeout), and a wait on the barrier ends after 600 seconds at the latest
SpecRun == RunInit /\ [][RunNext]_vars /\ WF_vars(RunNext)

(***************************************************************************)
(* The paired stress driver: main() of stress_test_p2p.py with its worker  *)
(* processes.                                                              *)
(***************************************************************************)
MaxPairs == 2

\* run_p2p_worker: verifier.run(max_turns=12, ...)
worker_max_turns == 12

\* the global timeout of the collection loop and the timeout of one
\* stats_queue.get, in seconds
global_timeout == 300

get_timeout == 10

\* p.is_alive()
Alive(st) == st.pc \in {"init", "barrier", "loop", "hung"}

\* main() between the spawning of the workers and the collection loop
NewDriver == [pc |-> "collecting", collected_count |-> 0, results |-> <<>>, elapsed |-> 0]

\* what a step of main() leaves: its locals and the queue
DOut(d, queue) == [driver |-> d, queue |-> queue]

\* one iteration of the collection loop; waited is the time the iteration
\* took, which is get_timeout when stats_queue.get found nothing
collect_iteration(d, queue, num_pairs, waited) ==
    IF ~(d.collected_count < num_pairs) THEN DOut([d EXCEPT !.pc = "cleanup"], queue)
    ELSE IF d.elapsed > global_timeout THEN DOut([d EXCEPT !.pc = "cleanup"], queue)
    ELSE IF Len(queue.items) > 0
    THEN DOut([d EXCEPT !.results = Append(@, Head(queue.items)),
                        !.collected_count = @ + 1,
                        !.elapsed = @ + waited],
              [queue EXCEPT !.items = Tail(@)])
    ELSE DOut([d EXCEPT !.elapsed = @ + get_timeout], queue)

\* the clean-up loop without p.terminate()
cleanup_join_only(ws) == ws

\* for p in processes: if p.is_alive(): p.terminate(); p.join()
cleanup(ws) ==
    [w \in DOMAIN ws |-> IF Alive(ws[w]) THEN [ws[w] EXCEPT !.pc = "terminated"] ELSE ws[w]]

\* the command a sound pair's Controller gives next
NextStage(st) ==
    IF ~st.target_holder_did THEN "INITIATE_AUTH"
    ELSE IF ~st.t_probe_done THEN "INITIATE_PROBE"
    ELSE "INITIATE_CONTEXT_CHECK"

Command(word) == [raise |-> FALSE, command |-> TRUE, words |-> {word}]

\* a turn of a worker of the stress test; the Holder of a pair that is not
\* sound is down
StressTurn(w, word, outcome) ==
    /\ w \in DOMAIN workers
    /\ outcome = IF workers[w].sound THEN "success" ELSE "fail"
    /\ workers[w].sound => word = NextStage(workers[w])
    /\ Turn(w, Command(word), outcome)

\* the worker stops making progress (a call that never returns) and stays alive
Hang(w) ==
    /\ w \in DOMAIN workers
    /\ workers[w].pc \in {"init", "loop"}
    /\ ~workers[w].sound
    /\ workers' = [workers EXCEPT ![w].pc = "hung"]
    /\ UNCHANGED <<max_turns, start_barrier, stats_queue, driver>>
    /\ UNCHANGED notRunVars

\* a sound worker can take a step
SoundEnabled ==
    \E w \in DOMAIN workers :
        /\ workers[w].sound
        /\ \/ workers[w].pc \in {"init", "loop"}
           \/ workers[w].pc = "barrier" /\ start_barrier.state = "released"

\* one iteration of the collection loop.  Time passes only while no sound
\* worker can take a step: the audit of a sound pair takes seconds, the
\* driver waits for global_timeout.
CollectIteration(waited) ==
    /\ driver.pc = "collecting"
    /\ \E r \in {collect_iteration(driver, stats_queue, Len(workers), waited)} :
          /\ r.driver.elapsed > driver.elapsed => ~SoundEnabled
          /\ driver' = r.driver
          /\ stats_queue' = r.queue
    /\ UNCHANGED <<workers, max_turns, start_barrier>>
    /\ UNCHANGED notRunVars

\* the clean-up loop of main()
CleanUp ==
    /\ driver.pc = "cleanup"
    /\ workers' = cleanup(workers)
    /\ driver' = [driver EXCEPT !.pc = "report"]
    /\ UNCHANGED <<max_turns, start_barrier, stats_queue>>
    /\ UNCHANGED notRunVars

\* the report: one CSV row per collected record
WriteReport ==
    /\ driver.pc = "report"
    /\ driver' = [driver EXCEPT !.pc = "done"]
    /\ UNCHANGED <<workers, max_turns, start_barrier, stats_queue>>
    /\ UNCHANGED notRunVars

StressInit ==
    /\ registry = [d \in DIDs |-> TRUE]
    /\ api_url_pool = <<>>
    /\ did_cache = [p \in Procs |-> EmptyCache]
    /\ RPC_CYCLE = [p \in Procs |-> 0]
    /\ vtrace = NoTrace
    /\ VpIdle
    /\ AuditIdle
    /\ IssuerIdle
    /\ IpfsIdle
    /\ LateIdle
    /\ \E num_pairs \in 1..MaxPairs :
          /\ workers \in [1..num_pairs -> {NewWorker, [NewWorker EXCEPT !.sound = TRUE]}]
          /\ start_barrier = Barrier(num_pairs)
    /\ max_turns = worker_max_turns
    /\ stats_queue = Queue
    /\ driver = NewDriver

\* a wait on the barrier lasts 600 seconds and so outlasts the collection
\* loop: no wait of a worker of the driver times out
StressNext ==
    \/ \E w \in 1..MaxPairs : InitFails(w)
    \/ \E w \in 1..MaxPairs : Hang(w)
    \/ \E w \in 1..MaxPairs : RunStart(w)
    \/ \E w \in 1..MaxPairs : BarrierPass(w)
    \/ \E w \in 1..MaxPairs, outcome \in {"success", "fail"},
          word \in {"INITIATE_AUTH", "INITIATE_PROBE", "INITIATE_CONTEXT_CHECK", "ABORT"} :
          StressTurn(w, word, outcome)
    \/ \E waited \in {0, get_timeout} : CollectIteration(waited)
    \/ CleanUp
    \/ WriteReport

\* the operating system runs every process that can run
SpecStress == StressInit /\ [][StressNext]_vars /\ WF_vars(StressNext)

(***************************************************************************)
(* Properties of run()                                                     *)
(***************************************************************************)
\* run() is over, or was never called
Ended(st) == st.pc \in {"exited", "returned", "barrier_failed", "raised"}

\* C13: run(max_turns) invokes the Controller at most max_turns times and
\* always terminates, whatever the Controller answers and however the
\* executed actions end.
C13_RunTerminates ==
    /\ [](\A w \in DOMAIN workers : workers[w].invoked <= max_turns)
    /\ <>(\A w \in DOMAIN workers : Ended(workers[w]))

\* a run used every one of its turns: the Controller was invoked max_turns
\* times, the last time for a context check that failed
C13_Witness ==
    \E w \in DOMAIN workers :
        /\ max_turns >= 3
        /\ workers[w].pc = "returned"
        /\ workers[w].invoked = max_turns
        /\ workers[w].target_holder_did
        /\ ~workers[w].context_ok
        /\ "Verifier" \notin workers[w].my_stats

\* C14: with a result queue supplied, a turn in which execute_context_check
\* succeeds puts the statistics record tagged with the instance label on
\* the queue and ends the loop.
C14_PutOnContextSuccess ==
    \A w \in DOMAIN workers :
        (stats_queue.supplied /\ workers[w].context_ok)
            => /\ workers[w].pc = "returned"
               /\ \E i \in 1..Len(stats_queue.items) : stats_queue.items[i].Verifier = w

\* every worker has called barrier.wait
AllArrived == \A v \in DOMAIN workers : workers[v].pc \notin {"init", "exited"}

\* C15: with a start barrier for all workers, no worker invokes the
\* Controller or sends a request to a Holder before every worker has arrived
\* at the barrier; a worker whose wait on the barrier fails has executed no
\* turn and put nothing on the queue, and run() has returned for good.
C15_BarrierStart ==
    /\ [](start_barrier.supplied =>
            \A w \in DOMAIN workers :
                /\ (workers[w].invoked > 0 \/ workers[w].contacted) => AllArrived
                /\ workers[w].pc = "barrier_failed" =>
                      /\ workers[w].turn = 0
                      /\ workers[w].invoked = 0
                      /\ ~workers[w].contacted
                      /\ \A i \in 1..Len(stats_queue.items) : stats_queue.items[i].Verifier # w)
    /\ [][\A w \in DOMAIN workers :
             workers[w].pc = "barrier_failed" => workers'[w] = workers[w]]_vars

\* all workers met at the barrier and one of them has then audited its Holder
C15_Witness ==
    /\ start_barrier.supplied
    /\ start_barrier.state = "released"
    /\ \E w \in DOMAIN workers :
          /\ workers[w].invoked > 0
          /\ workers[w].contacted
    /\ \E v \in DOMAIN workers : workers[v].pc = "barrier"

(***************************************************************************)
(* Properties of the stress driver                                         *)
(***************************************************************************)
\* the record of worker w is a row of the report
Reported(w) == \E i \in 1..Len(driver.results) : driver.results[i].Verifier = w

\* C16: the failure of one pair removes only that pair's record: every pair
\* whose own audit would succeed has its record in the report.
C16_OthersStillReport ==
    driver.pc = "done" => \A w \in DOMAIN workers : workers[w].sound => Reported(w)

\* C17: the collection loop ends; it ends as soon as one record per pair is
\* collected or global_timeout has elapsed, it collects at most one record
\* per pair, and after the clean-up no worker is alive.
C17_CollectionEnds ==
    /\ <>(driver.pc = "done")
    /\ [](driver.collected_count <= Len(workers))
    /\ [](driver.pc \in {"cleanup", "report", "done"} =>
            (driver.collected_count = Len(workers) \/ driver.elapsed > global_timeout))
    /\ [](driver.pc \in {"report", "done"} => \A w \in DOMAIN workers : ~Alive(workers[w]))
    /\ [][(/\ driver.pc = "collecting"
           /\ driver.collected_count = Len(workers) \/ driver.elapsed > global_timeout
           /\ driver' # driver)
             => (driver'.pc = "cleanup" /\ driver'.results = driver.results)]_vars

\* the loop ended on the timeout with one record collected, and the
\* clean-up terminated a worker that hung and had never reported
C17_Witness ==
    /\ driver.pc = "done"
    /\ driver.elapsed > global_timeout
    /\ driver.collected_count = 1
    /\ Len(workers) = 2
    /\ \E w \in DOMAIN workers : workers[w].pc = "terminated" /\ workers[w].turn > 0

\* ---------------------------------------------------------------------------
\* infrastructure/ipfs.py: the local cache and the gateway race
\* ---------------------------------------------------------------------------

\* the gateways of one race: the dedicated (or default Pinata) gateway and
\* the three public ones
_get_public_gateways == <<"gateway.pinata.cloud", "ipfs.io", "cloudflare-ipfs.com", "dweb.link">>

Gateways == 1..Len(_get_public_gateways)

\* stop=stop_after_attempt(3)
stop_after_attempt == 3

\* the content identifiers fetched, and the bytes each one names
Cids == {"QmEmpty", "QmOne"}

Blobs == {<<>>, <<1>>}

ContentOf(cid) == IF cid = "QmEmpty" THEN <<>> ELSE <<1>>

NoFile == [exists |-> FALSE, bytes |-> <<>>]

\* cache_path.exists() and read_bytes(); found = FALSE stands for None
_read_cache(dir, cid) ==
    IF dir[cid].exists
    THEN [found |-> TRUE, bytes |-> dir[cid].bytes]
    ELSE [found |-> FALSE, bytes |-> <<>>]

\* write to the temporary file, then rename it over the cache file
_write_cache(dir, cid, content) ==
    [dir EXCEPT ![cid] = [exists |-> TRUE, bytes |-> content]]

\* `if cached:` the truth value of an Optional[bytes]
Truthy(cached) == cached.found /\ Len(cached.bytes) > 0

PendingTask == [state |-> "pending", ok |-> FALSE, content |-> <<>>]

\* one execution of fetch_race_async up to its first await: the cache
\* check, then one task per gateway
race_attempt(f, dir, n) ==
    LET cached == _read_cache(dir, f.cid) IN
    IF Truthy(cached)
    THEN [f EXCEPT !.pc = "returned", !.attempt_number = n, !.hit = TRUE,
                   !.result = cached.bytes]
    ELSE [f EXCEPT !.pc = "racing", !.attempt_number = n,
                   !.tasks = [g \in Gateways |-> PendingTask],
                   !.completed = <<>>, !.first = 0,
                   !.requests = @ + Len(_get_public_gateways)]

\* fetch_content(cid): _run_sync(fetch_race_async(cid)), the first attempt
fetch_content(dir, cid) ==
    race_attempt([NoFetch EXCEPT !.cid = cid, !.file = _read_cache(dir, cid)], dir, 1)

\* _fetch_url_async of gateway g ends: it returns resp.content, or raises
\* IPFSGatewayError (an error answer, a connection failure, the 10 s timeout)
task_done(f, g, ok, content) ==
    [f EXCEPT !.tasks[g] = [state |-> "done", ok |-> ok,
                            content |-> IF ok THEN content ELSE <<>>],
              !.completed = Append(@, g),
              !.first = IF ok /\ @ = 0 THEN g ELSE @]

\* tenacity's stop condition after a failed attempt
should_stop_late(attempt_number) == attempt_number > stop_after_attempt

should_stop(attempt_number) == attempt_number >= stop_after_attempt

\* the as_completed loop never cancels the other tasks
resume_no_cancel(f, dir) ==
    LET g == Head(f.completed) IN
    IF f.tasks[g].ok
    THEN [f |-> [f EXCEPT !.pc = "returned", !.result = f.tasks[g].content,
                          !.completed = Tail(@)],
          dir |-> _write_cache(dir, f.cid, f.tasks[g].content)]
    ELSE LET handled == [f EXCEPT !.tasks[g].state = "handled", !.completed = Tail(@)] IN
         IF \E t \in Gateways : handled.tasks[t].state # "handled"
         THEN [f |-> handled, dir |-> dir]
         ELSE IF should_stop(f.attempt_number)
              THEN [f |-> [handled EXCEPT !.pc = "raised", !.failed_attempts = @ + 1],
                    dir |-> dir]
              ELSE [f |-> race_attempt([handled EXCEPT !.failed_attempts = @ + 1],
                                       dir, f.attempt_number + 1),
                    dir |-> dir]

\* the as_completed loop takes the next finished task: on a success it
\* cancels the tasks not done, writes the cache and returns; on a failure it
\* goes on, and after the last failure the attempt raises IPFSGatewayError,
\* which tenacity answers with another attempt or re-raises
resume(f, dir) ==
    LET g == Head(f.completed) IN
    IF f.tasks[g].ok
    THEN [f |-> [f EXCEPT !.pc = "returned", !.result = f.tasks[g].content,
                          !.completed = Tail(@),
                          !.tasks = [t \in Gateways |->
                                        IF f.tasks[t].state = "pending"
                                        THEN [f.tasks[t] EXCEPT !.state = "cancelled"]
                                        ELSE f.tasks[t]]],
          dir |-> _write_cache(dir, f.cid, f.tasks[g].content)]
    ELSE LET handled == [f EXCEPT !.tasks[g].state = "handled", !.completed = Tail(@)] IN
         IF \E t \in Gateways : handled.tasks[t].state # "handled"
         THEN [f |-> handled, dir |-> dir]
         ELSE IF should_stop(f.attempt_number)
              THEN [f |-> [handled EXCEPT !.pc = "raised", !.failed_attempts = @ + 1],
                    dir |-> dir]
              ELSE [f |-> race_attempt([handled EXCEPT !.failed_attempts = @ + 1],
                                       dir, f.attempt_number + 1),
                    dir |-> dir]

notIpfsVars == <<valVars, vpVars, audVars, issVars, runVars, lateVars>>

\* a caller calls fetch_content(cid)
FetchContent(cid) ==
    /\ fetch.pc # "racing"
    /\ fetch' = fetch_content(CACHE_DIR, cid)
    /\ UNCHANGED CACHE_DIR
    /\ UNCHANGED notIpfsVars

\* the request to gateway g ends
TaskDone(g, ok, content) ==
    /\ fetch.pc = "racing"
    /\ fetch.tasks[g].state = "pending"
    /\ fetch' = task_done(fetch, g, ok, content)
    /\ UNCHANGED CACHE_DIR
    /\ UNCHANGED notIpfsVars

\* the event loop resumes fetch_race_async with the next finished task
Resume ==
    /\ fetch.pc = "racing"
    /\ fetch.completed # <<>>
    /\ \E r \in {resume(fetch, CACHE_DIR)} :
          /\ fetch' = r.f
          /\ CACHE_DIR' = r.dir
    /\ UNCHANGED notIpfsVars

\* upload_file of a file whose identifier is cid: Pinata answers with the
\* hash of the content and the content is cached under it
UploadFile(cid) ==
    /\ CACHE_DIR' = _write_cache(CACHE_DIR, cid, ContentOf(cid))
    /\ UNCHANGED fetch
    /\ UNCHANGED notIpfsVars

IpfsInit ==
    /\ registry = [d \in DIDs |-> TRUE]
    /\ api_url_pool = <<>>
    /\ did_cache = [p \in Procs |-> EmptyCache]
    /\ RPC_CYCLE = [p \in Procs |-> 0]
    /\ vtrace = NoTrace
    /\ VpIdle
    /\ AuditIdle
    /\ IssuerIdle
    /\ RunIdle
    /\ CACHE_DIR = [cid \in Cids |-> NoFile]
    /\ fetch = NoFetch
    /\ LateIdle

\* what the request to a gateway can end with
TaskEnds == {o \in [ok : BOOLEAN, content : Blobs] : o.ok \/ o.content = <<>>}

IpfsNext ==
    \/ \E cid \in Cids : FetchContent(cid)
    \/ \E cid \in Cids : UploadFile(cid)
    \/ \E g \in Gateways, o \in TaskEnds : TaskDone(g, o.ok, o.content)
    \/ Resume

\* the steps the event loop takes by itself
IpfsProgress ==
    \/ \E g \in Gateways, o \in TaskEnds : TaskDone(g, o.ok, o.content)
    \/ Resume

\* every request ends within its 10 s timeout and the event loop runs the
\* coroutine that waits for it
SpecIpfs == IpfsInit /\ [][IpfsNext]_vars /\ WF_vars(IpfsProgress)

\* C18: whenever a file named cid exists in the cache directory when
\* fetch_content(cid) is called, the call makes no network request and
\* returns the bytes of that file, zero-length content included.
C18_CacheHitNoNetwork ==
    (fetch.pc # "idle" /\ fetch.file.found) =>
        /\ fetch.requests = 0
        /\ fetch.pc = "returned"
        /\ fetch.result = fetch.file.bytes

C20_RetryThenRaise ==
    /\ [](fetch.attempt_number <= 3)
    /\ [](fetch.requests <= 3 * Len(_get_public_gateways))
    /\ [](fetch.pc = "raised" <=> fetch.failed_attempts = 3)
    /\ [](fetch.pc = "returned" =>
            \/ fetch.hit /\ Len(fetch.result) > 0
            \/ ~fetch.hit /\ fetch.first # 0
                /\ fetch.result = fetch.tasks[fetch.first].content)
    /\ (fetch.pc = "racing" ~> fetch.pc \in {"returned", "raised"})

C20_Witness ==
    /\ fetch.pc = "raised"
    /\ fetch.attempt_number = 3
    /\ fetch.requests = 3 * Len(_get_public_gateways)
    /\ \A g \in Gateways : fetch.tasks[g].state = "handled"

\* ---------------------------------------------------------------------------
\* infrastructure/ipfs.py: fetch_batch
\* ---------------------------------------------------------------------------

MaxBatch == 3

MaxWorkers == 2

\* the lists of content identifiers a caller asks for, repetitions included
CidLists == UNION {[1..n -> Cids] : n \in 0..MaxBatch}

\* what one fetch_race_async ends with: its bytes, or IPFSGatewayError
RaceEnds == {o \in [ok : BOOLEAN, data : Blobs] : o.ok \/ o.data = <<>>}

\* sem = asyncio.Semaphore(max_workers) and one task per requested cid;
\* every task starts at `async with sem`
fetch_batch(cids, max_workers) ==
    [pc |-> "gathering", cids |-> cids, max_workers |-> max_workers,
     sem |-> max_workers,
     tasks |-> [i \in 1..Len(cids) |-> [state |-> "created", ok |-> FALSE, data |-> <<>>]],
     results |-> <<>>, keys |-> {}]

\* Semaphore.acquire blocks while the value is 0
can_acquire_always(sem) == TRUE

can_acquire(sem) == sem > 0

\* entering `async with sem`: the task takes a permit and starts its race
sem_enter(b, i) ==
    [b EXCEPT !.sem = @ - 1, !.tasks[i].state = "racing"]

\* _bounded_fetch without its try/except: the error reaches gather
_bounded_fetch_unguarded(b, i, o) ==
    IF o.ok
    THEN [b EXCEPT !.sem = @ + 1,
                   !.tasks[i] = [state |-> "done", ok |-> TRUE, data |-> o.data]]
    ELSE [b EXCEPT !.sem = @ + 1, !.pc = "raised",
                   !.tasks[i] = [state |-> "done", ok |-> FALSE, data |-> <<>>]]

\* the race of task i ends inside `async with sem`: the task returns
\* (cid, data), or (cid, None) after an exception, and gives the permit back
_bounded_fetch(b, i, o) ==
    IF o.ok
    THEN [b EXCEPT !.sem = @ + 1,
                   !.tasks[i] = [state |-> "done", ok |-> TRUE, data |-> o.data]]
    ELSE [b EXCEPT !.sem = @ + 1,
                   !.tasks[i] = [state |-> "done", ok |-> FALSE, data |-> <<>>]]

\* the loop over done_results, in the order of cids: results[cid] = data
\* unless data is None
RECURSIVE collect(_, _, _)
collect(i, b, results) ==
    IF i > Len(b.cids) THEN results
    ELSE collect(i + 1, b,
                 IF b.tasks[i].ok
                 THEN [c \in (DOMAIN results) \cup {b.cids[i]} |->
                          IF c = b.cids[i] THEN b.tasks[i].data ELSE results[c]]
                 ELSE results)

\* asyncio.gather returns once every task is done
gather(b) ==
    [b EXCEPT !.pc = "returned", !.results = collect(1, b, <<>>),
              !.keys = DOMAIN collect(1, b, <<>>)]

notBatchVars == <<valVars, vpVars, audVars, issVars, runVars, ipfsVars, boot, obs>>

\* a caller calls fetch_batch(cids, max_workers)
FetchBatch(cids, max_workers) ==
    /\ batch.pc \in {"none", "returned"}
    /\ batch' = fetch_batch(cids, max_workers)
    /\ UNCHANGED notBatchVars

Acquire(i) ==
    /\ batch.pc = "gathering"
    /\ i \in DOMAIN batch.tasks
    /\ batch.tasks[i].state = "created"
    /\ can_acquire(batch.sem)
    /\ batch' = sem_enter(batch, i)
    /\ UNCHANGED notBatchVars

RaceEnd(i, o) ==
    /\ batch.pc = "gathering"
    /\ i \in DOMAIN batch.tasks
    /\ batch.tasks[i].state = "racing"
    /\ batch' = _bounded_fetch(batch, i, o)
    /\ UNCHANGED notBatchVars

Gather ==
    /\ batch.pc = "gathering"
    /\ \A i \in DOMAIN batch.tasks : batch.tasks[i].state = "done"
    /\ batch' = gather(batch)
    /\ UNCHANGED notBatchVars

BatchInit ==
    /\ registry = [d \in DIDs |-> TRUE]
    /\ api_url_pool = <<>>
    /\ did_cache = [p \in Procs |-> EmptyCache]
    /\ RPC_CYCLE = [p \in Procs |-> 0]
    /\ vtrace = NoTrace
    /\ VpIdle
    /\ AuditIdle
    /\ ExtIdle

\* the steps the event loop takes by itself
BatchProgress ==
    \/ \E i \in 1..MaxBatch : Acquire(i)
    \/ \E i \in 1..MaxBatch, o \in RaceEnds : RaceEnd(i, o)
    \/ Gather

BatchNext ==
    \/ \E cids \in CidLists, max_workers \in 1..MaxWorkers : FetchBatch(cids, max_workers)
    \/ \E i \in 1..MaxBatch : Acquire(i)
    \/ \E i \in 1..MaxBatch, o \in RaceEnds : RaceEnd(i, o)
    \/ Gather

\* every race ends (C20) and the event loop runs every task that can run
SpecBatch == BatchInit /\ [][BatchNext]_vars /\ WF_vars(BatchProgress)

\* the requested positions whose own fetch succeeded
Succeeded(b) == {i \in DOMAIN b.tasks : b.tasks[i].ok}

\* C21: fetch_batch never ends with an exception, and the mapping it
\* returns has as keys exactly the requested CIDs whose own fetch succeeded,
\* each mapped to the content that fetch returned, whatever the other CIDs did.
C21_BestEffort ==
    /\ batch.pc # "raised"
    /\ batch.pc = "returned" =>
          /\ batch.keys = {batch.cids[i] : i \in Succeeded(batch)}
          /\ \A c \in batch.keys :
                \E i \in Succeeded(batch) :
                    /\ batch.cids[i] = c
                    /\ batch.results[c] = batch.tasks[i].data
                    /\ \A j \in Succeeded(batch) : batch.cids[j] = c => j <= i

C21_Witness ==
    /\ batch.pc = "returned"
    /\ \E i, j \in DOMAIN batch.tasks :
          /\ batch.cids[i] # batch.cids[j]
          /\ ~batch.tasks[i].ok
          /\ batch.tasks[j].ok
          /\ batch.keys = {batch.cids[j]}
          /\ batch.results[batch.cids[j]] = <<>>

InFlight(b) == {i \in DOMAIN b.tasks : b.tasks[i].state = "racing"}

\* C22: during fetch_batch at most max_workers races are in flight at any
\* instant, and every requested CID is eventually attempted.
C22_BoundedInFlight ==
    /\ [](batch.pc = "gathering" => Cardinality(InFlight(batch)) <= batch.max_workers)
    /\ \A i \in 1..MaxBatch :
          (batch.pc = "gathering" /\ i \in DOMAIN batch.tasks
                /\ batch.tasks[i].state = "created")
             ~> (batch.pc # "none" /\ i \in DOMAIN batch.tasks
                    /\ batch.tasks[i].state # "created")

C22_Witness ==
    /\ batch.pc = "gathering"
    /\ Cardinality(InFlight(batch)) = batch.max_workers
    /\ batch.max_workers = MaxWorkers
    /\ \E i \in DOMAIN batch.tasks : batch.tasks[i].state = "created"

\* ---------------------------------------------------------------------------
\* infrastructure/utils.py: the rotation of get_rpc_url, call after call
\* ---------------------------------------------------------------------------

MaxPool == 3

MaxCalls == 6

\* config["api_url_pool"]: absent or empty, or K distinct endpoints
RpcPools == {[i \in 1..k |-> i] : k \in 0..MaxPool}

notRpcVars == <<registry, did_cache, vtrace, vpVars, audVars, issVars, runVars, ipfsVars,
                batch, boot>>

\* one call of get_rpc_url in process p; random.randint draws start at
\* the first call
GetRpcUrl(p, start) ==
    /\ Len(obs.calls[p]) < MaxCalls
    /\ \E r \in {get_rpc_url(RPC_CYCLE[p], api_url_pool, start)} :
          /\ RPC_CYCLE' = [RPC_CYCLE EXCEPT ![p] = r.cycle]
          /\ obs' = [obs EXCEPT !.calls[p] = Append(@, r.url)]
    /\ UNCHANGED api_url_pool
    /\ UNCHANGED notRpcVars

RpcInit ==
    /\ registry = [d \in DIDs |-> TRUE]
    /\ api_url_pool \in RpcPools
    /\ did_cache = [p \in Procs |-> EmptyCache]
    /\ RPC_CYCLE = [p \in Procs |-> 0]
    /\ vtrace = NoTrace
    /\ VpIdle
    /\ AuditIdle
    /\ IssuerIdle
    /\ RunIdle
    /\ IpfsIdle
    /\ batch = NoBatch
    /\ boot = NoBoot
    /\ obs = [op |-> "get_rpc_url", calls |-> [p \in Procs |-> <<>>]]

RpcNext == \E p \in Procs : \E start \in Starts(p) : GetRpcUrl(p, start)

SpecRpc == RpcInit /\ [][RpcNext]_vars

\* how often endpoint u was returned among the calls from..to
Times(calls, u, from, to) == Cardinality({i \in from..to : calls[i] = u})

\* C23: with a pool of K >= 1 endpoints the i-th call of a process returns
\* pool[(s + i) mod K] for one start offset s, so K consecutive calls return
\* every endpoint once and N calls return every endpoint floor(N/K) or
\* ceil(N/K) times; without a pool every call returns api_url and the
\* rotation state stays as it was.
C23_RoundRobin ==
    \A p \in Procs :
        LET calls == obs.calls[p]
            K == Len(api_url_pool)
            N == Len(calls)
        IN IF K = 0
           THEN /\ \A i \in 1..N : calls[i] = api_url
                /\ RPC_CYCLE[p] = 0
           ELSE /\ \E s \in 0..(K - 1) :
                      \A i \in 0..(N - 1) : calls[i + 1] = api_url_pool[((s + i) % K) + 1]
                /\ \A from \in 1..N :
                      from + K - 1 <= N =>
                         \A u \in 1..K : Times(calls, api_url_pool[u], from, from + K - 1) = 1
                /\ \A u \in 1..K :
                      /\ Times(calls, api_url_pool[u], 1, N) >= N \div K
                      /\ Times(calls, api_url_pool[u], 1, N) <= (N + K - 1) \div K

C23_Witness ==
    /\ Len(api_url_pool) = MaxPool
    /\ Len(obs.calls["holder"]) = MaxCalls
    /\ Len(obs.calls["verifier"]) = MaxCalls - 1
    /\ obs.calls["holder"][1] = api_url_pool[2]
    /\ obs.calls["verifier"][1] = api_url_pool[3]

\* ---------------------------------------------------------------------------
\* infrastructure/wallet.py: IdentityWallet.__init__
\* ---------------------------------------------------------------------------

\* a role name is the sequence of its pieces: "a_opb_op" is
\* <<"a", "_op", "b", "_op">>; the letters hold no underscore, so the
\* occurrences of "_op" in the name are exactly its "_op" pieces
BaseNames == {<<"a">>, <<"a", "b">>, <<"a", "_op", "b">>}

OpRole(X) == X \o <<"_op">>

AdminRole(X) == X \o <<"_admin">>

RoleNames == {OpRole(X) : X \in BaseNames} \cup {AdminRole(X) : X \in BaseNames}
                \cup {<<"issuer">>}

\* config["accounts"]: every account has an address of its own
Accounts(roles) == [r \in roles |-> [address |-> <<"0x", r>>, private_key |-> <<"key", r>>]]

WalletConfigs == {[accounts |-> Accounts(roles)] : roles \in SUBSET RoleNames}

\* str.endswith("_op") and str.replace("_op", "")
endswith_op(name) == Len(name) > 0 /\ name[Len(name)] = "_op"

RemoveOp(t) == t # "_op"

replace_op(name) == SelectSeq(name, RemoveOp)

WOut(raised, did) == [raised |-> raised, did |-> did]

\* IdentityWallet(agent_role_name, override_config=config): raised stands
\* for ValueError("Role ... not found")
IdentityWallet(config, agent_role_name) ==
    IF agent_role_name \notin DOMAIN config.accounts
    THEN WOut(TRUE, <<>>)
    ELSE LET account_info == config.accounts[agent_role_name]
             admin_role == IF endswith_op(agent_role_name)
                           THEN replace_op(agent_role_name) \o <<"_admin">>
                           ELSE agent_role_name
         IN IF admin_role \in DOMAIN config.accounts
            THEN WOut(FALSE, <<"did:ethr:sepolia", config.accounts[admin_role].address>>)
            ELSE WOut(FALSE, <<"did:ethr:sepolia", account_info.address>>)

notObsVars == <<valVars, vpVars, audVars, issVars, runVars, ipfsVars, batch, boot>>

\* a process constructs its wallet
NewWallet ==
    /\ obs.out = "none"
    /\ obs' = [obs EXCEPT !.out = "made",
                          !.wallet = IdentityWallet(obs.config, obs.role)]
    /\ UNCHANGED notObsVars

WalletInit ==
    /\ registry = [d \in DIDs |-> TRUE]
    /\ api_url_pool = <<>>
    /\ did_cache = [p \in Procs |-> EmptyCache]
    /\ RPC_CYCLE = [p \in Procs |-> 0]
    /\ vtrace = NoTrace
    /\ VpIdle
    /\ AuditIdle
    /\ IssuerIdle
    /\ RunIdle
    /\ IpfsIdle
    /\ batch = NoBatch
    /\ boot = NoBoot
    /\ \E config \in WalletConfigs, role \in RoleNames :
          obs = [op |-> "IdentityWallet", config |-> config, role |-> role,
                 out |-> "none", wallet |-> WOut(FALSE, <<>>)]

WalletNext == NewWallet

SpecWallet == WalletInit /\ [][WalletNext]_vars

\* the DID of an account's address
DidOfAccount(config, role) == <<"did:ethr:sepolia", config.accounts[role].address>>

\* C24: for every base name X with both X_op and X_admin in the
\* configuration the wallet of X_op has the DID of X_admin's address, as the
\* wallet of X_admin has, also when X contains "_op"; a role with no
\* X_admin entry has the DID of its own address; a role absent from the
\* configuration makes the construction fail.
C24_OpAndAdminShareDid ==
    obs.out = "made" =>
       LET accounts == DOMAIN obs.config.accounts
           X == SubSeq(obs.role, 1, Len(obs.role) - 1)
       IN IF obs.role \notin accounts
          THEN obs.wallet.raised
          ELSE /\ ~obs.wallet.raised
               /\ obs.wallet.did =
                     IF endswith_op(obs.role) /\ AdminRole(X) \in accounts
                     THEN DidOfAccount(obs.config, AdminRole(X))
                     ELSE DidOfAccount(obs.config, obs.role)

\* ---------------------------------------------------------------------------
\* agents/verifier/runtime.py: _verify_tool_outputs on the text of a response
\* ---------------------------------------------------------------------------

MaxTokens == 3

\* the time check's tolerance, in seconds
tolerance == 120

\* datetime.now(timezone.utc), in seconds
ProbeNow == 200

\* a response text is a sequence of pieces: a hash in hex, a timestamp
\* YYYY-MM-DD HH:MM:SS of the instant v, a text of that shape that names no
\* instant (month 13, hour 25), or another word
Piece(kind, v) == [kind |-> kind, v |-> v]

Pieces ==
    {Piece("hash", h) : h \in 1..2}
      \cup {Piece("time", t) : t \in {ProbeNow - tolerance - 1, ProbeNow - tolerance,
                                       ProbeNow + tolerance, ProbeNow + tolerance + 1}}
      \cup {Piece("notime", 0), Piece("word", 0)}

Responses == UNION {[1..n -> Pieces] : n \in 0..MaxTokens}

\* expected_hash in response_text
Contains(response_text, expected_hash) ==
    \E i \in DOMAIN response_text : response_text[i] = Piece("hash", expected_hash)

\* re.search(r"(\d{4}-\d{2}-\d{2} \d{2}:\d{2}:\d{2})", response_text): the
\* position of the first text of that shape, 0 when there is none
search(response_text) ==
    LET matches == {i \in DOMAIN response_text : response_text[i].kind \in {"time", "notime"}}
    IN IF matches = {} THEN 0 ELSE CHOOSE i \in matches : \A j \in matches : i <= j

Abs(x) == IF x < 0 THEN 0 - x ELSE x

\* VerifierRuntime._verify_tool_outputs(response_text, expected_hash) at the
\* instant now: the value of passed
verify_tool_outputs(now, response_text, expected_hash) ==
    LET hash_ok == Contains(response_text, expected_hash)
        match == search(response_text)
    IN IF match # 0
       THEN IF response_text[match].kind = "time"
            THEN IF Abs(now - response_text[match].v) <= tolerance
                 THEN hash_ok
                 ELSE FALSE
            ELSE hash_ok
       ELSE FALSE

\* the Verifier checks the response of a probe
VerifyToolOutputs ==
    /\ obs.out = "none"
    /\ obs' = [obs EXCEPT !.out = "returned",
                          !.passed = verify_tool_outputs(obs.now, obs.response_text,
                                                         obs.expected_hash)]
    /\ UNCHANGED notObsVars

ToolInit ==
    /\ registry = [d \in DIDs |-> TRUE]
    /\ api_url_pool = <<>>
    /\ did_cache = [p \in Procs |-> EmptyCache]
    /\ RPC_CYCLE = [p \in Procs |-> 0]
    /\ vtrace = NoTrace
    /\ VpIdle
    /\ AuditIdle
    /\ IssuerIdle
    /\ RunIdle
    /\ IpfsIdle
    /\ batch = NoBatch
    /\ boot = NoBoot
    /\ \E response_text \in Responses :
          obs = [op |-> "_verify_tool_outputs", response_text |-> response_text,
                 expected_hash |-> 1, now |-> ProbeNow, out |-> "none", passed |-> FALSE]

ToolNext == VerifyToolOutputs

SpecTool == ToolInit /\ [][ToolNext]_vars

\* C25: _verify_tool_outputs passes exactly when the response contains the
\* expected hash and its timestamp parses and lies within 120 seconds of
\* now; a response without a timestamp, with a timestamp that does not
\* parse, or with one more than 120 seconds away fails.
C25_BothChecks ==
    obs.out = "returned" =>
       LET match == search(obs.response_text)
       IN obs.passed <=>
             /\ Contains(obs.response_text, obs.expected_hash)
             /\ match # 0
             /\ obs.response_text[match].kind = "time"
             /\ Abs(obs.now - obs.response_text[match].v) <= 120

\* ---------------------------------------------------------------------------
\* agents/verifier/runtime.py: the timeout of _construct_probe_payload
\* ---------------------------------------------------------------------------

MaxInputLen == 2001

\* the templates of probe_templates.json: without required_tool_names, with
\* an empty list, with one tool
ProbeTemplates ==
    {[template_str |-> "Echo"],
     [template_str |-> "Run", required_tool_names |-> <<>>],
     [template_str |-> "Run", required_tool_names |-> <<"sha256_tool">>]}

Min(a, b) == IF a < b THEN a ELSE b

Max(a, b) == IF a > b THEN a ELSE b

\* the bounds applied the other way round
dynamic_timeout_swapped(input_len, template_data) ==
    LET required_tools == Get(template_data, "required_tool_names", <<>>)
        raw == 2000 + (input_len * 50) + (IF Len(required_tools) > 0 THEN 2000 ELSE 0)
    IN Min(3000, Max(raw, 100000))

\* dynamic_timeout of _construct_probe_payload for an input text of
\* input_len characters
dynamic_timeout(input_len, template_data) ==
    LET required_tools == Get(template_data, "required_tool_names", <<>>)
        raw == 2000 + (input_len * 50) + (IF Len(required_tools) > 0 THEN 2000 ELSE 0)
    IN Max(3000, Min(raw, 100000))

\* the Verifier builds a probe
ConstructProbePayload ==
    /\ obs.out = "none"
    /\ obs' = [obs EXCEPT !.out = "returned",
                          !.timeout_ms = dynamic_timeout(obs.input_len, obs.template_data)]
    /\ UNCHANGED notObsVars

ProbeInit ==
    /\ registry = [d \in DIDs |-> TRUE]
    /\ api_url_pool = <<>>
    /\ did_cache = [p \in Procs |-> EmptyCache]
    /\ RPC_CYCLE = [p \in Procs |-> 0]
    /\ vtrace = NoTrace
    /\ VpIdle
    /\ AuditIdle
    /\ IssuerIdle
    /\ RunIdle
    /\ IpfsIdle
    /\ batch = NoBatch
    /\ boot = NoBoot
    /\ \E input_len \in 0..MaxInputLen, template_data \in ProbeTemplates :
          obs = [op |-> "_construct_probe_payload", input_len |-> input_len,
                 template_data |-> template_data, out |-> "none", timeout_ms |-> 0]

ProbeNext == ConstructProbePayload

SpecProbe == ProbeInit /\ [][ProbeNext]_vars

\* the template names at least one required tool
NamesTool(template_data) ==
    /\ "required_tool_names" \in DOMAIN template_data
    /\ template_data.required_tool_names # <<>>

\* C26: for an input of L characters the probe timeout is 2000 + 50*L, plus
\* 2000 when the template names a required tool, raised to 3000 and capped at
\* 100000 milliseconds; L = 10 without tools gives 3000 and L = 2000 with a
\* tool gives 100000.
C26_TimeoutClamped ==
    obs.out = "returned" =>
       LET L == obs.input_len
           raw == 2000 + 50 * L + (IF NamesTool(obs.template_data) THEN 2000 ELSE 0)
       IN /\ obs.timeout_ms >= 3000
          /\ obs.timeout_ms <= 100000
          /\ raw < 3000 => obs.timeout_ms = 3000
          /\ raw > 100000 => obs.timeout_ms = 100000
          /\ (raw >= 3000 /\ raw <= 100000) => obs.timeout_ms = raw
          /\ (L = 10 /\ ~NamesTool(obs.template_data)) => obs.timeout_ms = 3000
          /\ (L = 2000 /\ NamesTool(obs.template_data)) => obs.timeout_ms = 100000

C26_Witness ==
    /\ obs.op = "_construct_probe_payload"
    /\ obs.out = "returned"
    /\ obs.input_len = 2000
    /\ NamesTool(obs.template_data)
    /\ obs.timeout_ms = 100000

\* ---------------------------------------------------------------------------
\* infrastructure/validator.py: _verify_single_vc on one credential, by
\* validators that differ in their trusted issuers
\* ---------------------------------------------------------------------------

\* the validUntil values of the credentials studied: instants with a UTC
\* offset, strings without one, a string no date can be read from
ValidUntils ==
    (0..(MaxTime + 2)) \cup {Naive(t) : t \in 0..(MaxTime + 2)} \cup {Unparseable}

\* the credentials: issued to the Holder or to the Verifier, by the Issuer
\* or by the Verifier acting as an issuer, signed by the issuer's key or
\* by another key, with or without validUntil
VcInputs ==
    {WithProof(body, key) :
        body \in {VcBody(subject, issuer) :
                     subject \in {DidOf("H"), DidOf("V")},
                     issuer \in {DidOf("I"), DidOf("V")}}
                 \cup {WithValidUntil(VcBody(subject, issuer), t) :
                          subject \in {DidOf("H"), DidOf("V")},
                          issuer \in {DidOf("I"), DidOf("V")},
                          t \in ValidUntils},
        key \in {OpAddr("I"), OpAddr("V"), MalloryAddr}}

\* the trusted_issuers lists of the validators compared
TrustedLists == {{}, {AdminAddr("I")}, {AdminAddr("V")}}

\* every validator checks the credential, each from the same fresh state
VerifySingleVc ==
    /\ obs.out = "none"
    /\ obs' = [obs EXCEPT
                 !.out = "returned",
                 !.res = [T \in TrustedLists |->
                            LET r == _verify_single_vc(T, EmptyCache, 0, api_url_pool, 1,
                                                       registry, obs.now, obs.vc,
                                                       DidOf("H"), obs.env, obs.env)
                            IN [res |-> r.res, reason |-> r.reason]]]
    /\ UNCHANGED notObsVars

VcInit ==
    /\ registry = [d \in DIDs |-> TRUE]
    /\ api_url_pool = <<>>
    /\ did_cache = [p \in Procs |-> EmptyCache]
    /\ RPC_CYCLE = [p \in Procs |-> 0]
    /\ vtrace = NoTrace
    /\ VpIdle
    /\ AuditIdle
    /\ IssuerIdle
    /\ RunIdle
    /\ IpfsIdle
    /\ batch = NoBatch
    /\ boot = NoBoot
    /\ \E vc \in VcInputs, now \in 1..(MaxTime + 1), env \in VpEnvs :
          obs = [op |-> "_verify_single_vc", vc |-> vc, now |-> now, env |-> env,
                 out |-> "none",
                 res |-> [T \in TrustedLists |-> [res |-> "none", reason |-> ""]]]

VcNext == VerifySingleVc

SpecVC == VcInit /\ [][VcNext]_vars

\* the instant a validUntil value names, read as UTC when it has no offset
InstantOf(exp_str) == IF exp_str < Unparseable THEN 0 - exp_str - 2 ELSE exp_str

\* C27: at time now a credential of the expected holder whose validUntil is
\* earlier than now fails as expired; one whose validUntil is later than now,
\* one without validUntil and one whose validUntil cannot be parsed do not
\* fail on expiry grounds.
C27_Expiry ==
    obs.out = "returned" =>
       \A T \in TrustedLists :
          IF "validUntil" \in DOMAIN obs.vc /\ obs.vc.validUntil # Unparseable
          THEN /\ (obs.vc.credentialSubject.id = DidOf("H")
                      /\ InstantOf(obs.vc.validUntil) < obs.now)
                     => (obs.res[T].res = "fail" /\ obs.res[T].reason = "Credential-Expired")
               /\ InstantOf(obs.vc.validUntil) > obs.now
                     => obs.res[T].reason # "Credential-Expired"
          ELSE obs.res[T].reason # "Credential-Expired"

\* C28: validators that differ only in trusted_issuers return the same
\* result on every credential, so a credential of an issuer outside the
\* list is accepted when its subject, expiry and signature checks pass.
C28_TrustedIssuersIgnored ==
    obs.out = "returned" =>
       /\ \A T1, T2 \in TrustedLists : obs.res[T1] = obs.res[T2]
       /\ \A T \in TrustedLists :
             (/\ obs.vc.credentialSubject.id = DidOf("H")
              /\ ~("validUntil" \in DOMAIN obs.vc /\ expired(obs.now, obs.vc.validUntil))
              /\ obs.vc.proof.jws = sign_message(OpAddr(PartyOf(obs.vc.issuer)),
                                                 Serialize(WithoutField(obs.vc, "proof")))
              /\ ~Down(obs.env))
                => obs.res[T].res = "ok"

C28_Witness ==
    /\ obs.op = "_verify_single_vc"
    /\ obs.out = "returned"
    /\ obs.vc.issuer = DidOf("V")
    /\ obs.res[{AdminAddr("I")}].res = "ok"
    /\ obs.res[{}].res = "ok"

\* ---------------------------------------------------------------------------
\* agents/holder/runtime.py: the Holder process from launch to app.run
\* ---------------------------------------------------------------------------

\* the file vc_{safe_did}_{type}.json of the data directory
VcFile(did, type) == [did |-> did, type |-> type]

VcFileNames == {VcFile(DidOf("H"), "Audit_License"), VcFile(DidOf("V"), "Audit_License")}

VcFileOrder == <<VcFile(DidOf("H"), "Audit_License"), VcFile(DidOf("V"), "Audit_License")>>

\* a file: json holds the object when the content parses, nothing when not
Absent == [exists |-> FALSE, json |-> <<>>]

FileWith(vc) == [exists |-> TRUE, json |-> <<vc>>]

Garbled == [exists |-> TRUE, json |-> <<>>]

DataDirs == [VcFileNames -> {Absent, Garbled, FileWith(GoodVC), FileWith(ForeignVC)}]

\* what POST /issue_vc comes back with
IssuerAnswers ==
    {[kind |-> "unreachable", status_code |-> 0, vc_list |-> <<>>],
     [kind |-> "answer", status_code |-> 500, vc_list |-> <<>>]}
      \cup {[kind |-> "answer", status_code |-> 200, vc_list |-> l] :
               l \in {<<>>, <<GoodVC>>, <<ForeignVC>>, <<GoodVC, ForeignVC>>}}

\* IdentityWallet.load_local_vcs: the files vc_*.json that parse and whose
\* credentialSubject.id is the wallet's DID
RECURSIVE load_from(_, _, _)
load_from(i, data_dir, did) ==
    IF i > Len(VcFileOrder) THEN <<>>
    ELSE LET f == data_dir[VcFileOrder[i]]
         IN (IF f.exists /\ f.json # <<>> /\ f.json[1].credentialSubject.id = did
             THEN <<f.json[1]>> ELSE <<>>) \o load_from(i + 1, data_dir, did)

load_local_vcs(data_dir, did) == load_from(1, data_dir, did)

\* glob of vc_{safe_did}_*.json
has_local_vc(data_dir, did) ==
    \E name \in VcFileNames : name.did = did /\ data_dir[name].exists

save_vc_to_wallet(data_dir, did, vc_data) ==
    [data_dir EXCEPT ![VcFile(did, vc_data.type)] = FileWith(vc_data)]

BOut(success, data_dir, vcs) == [success |-> success, data_dir |-> data_dir, my_vcs |-> vcs]

RECURSIVE receive(_, _, _, _, _)
receive(i, vc_list, data_dir, vcs, did) ==
    IF i > Len(vc_list) THEN BOut(TRUE, data_dir, vcs)
    ELSE receive(i + 1, vc_list, save_vc_to_wallet(data_dir, did, vc_list[i]),
                 Append(vcs, vc_list[i]), did)

execute_request_vc(data_dir, vcs, did, answer) ==
    IF answer.kind = "unreachable"
    THEN BOut(TRUE, save_vc_to_wallet(data_dir, did, MockVC), Append(vcs, MockVC))
    ELSE IF answer.status_code = 200
    THEN receive(1, answer.vc_list, data_dir, vcs, did)
    ELSE BOut(FALSE, data_dir, vcs)

\* perform_startup_check: success = FALSE stands for sys.exit(1)
perform_startup_check(data_dir, vcs, did, answer) ==
    IF has_local_vc(data_dir, did)
    THEN BOut(TRUE, data_dir, load_local_vcs(data_dir, did))
    ELSE execute_request_vc(data_dir, vcs, did, answer)

notBootVars == <<valVars, vpVars, audVars, issVars, runVars, ipfsVars, batch, obs>>

\* __main__ builds the wallet and loads the local credentials
LoadWallet ==
    /\ boot.pc = "launched"
    /\ boot' = [boot EXCEPT !.pc = "loaded",
                            !.my_vcs = load_local_vcs(boot.data_dir, boot.did)]
    /\ UNCHANGED notBootVars

\* __main__ runs perform_startup_check and then app.run, or exits
PerformStartupCheck ==
    /\ boot.pc = "loaded"
    /\ \E b \in {perform_startup_check(boot.data_dir, boot.my_vcs, boot.did, boot.answer)} :
          boot' = [boot EXCEPT !.pc = IF b.success THEN "serving" ELSE "exited",
                               !.data_dir = b.data_dir,
                               !.my_vcs = b.my_vcs]
    /\ UNCHANGED notBootVars

BootInit ==
    /\ registry = [d \in DIDs |-> TRUE]
    /\ api_url_pool = <<>>
    /\ did_cache = [p \in Procs |-> EmptyCache]
    /\ RPC_CYCLE = [p \in Procs |-> 0]
    /\ vtrace = NoTrace
    /\ VpIdle
    /\ AuditIdle
    /\ IssuerIdle
    /\ RunIdle
    /\ IpfsIdle
    /\ batch = NoBatch
    /\ obs = NoObs
    /\ \E data_dir \in DataDirs, answer \in IssuerAnswers :
          boot = [pc |-> "launched", did |-> DidOf("H"), data_dir |-> data_dir,
                  answer |-> answer, my_vcs |-> <<>>]

BootNext ==
    \/ LoadWallet
    \/ PerformStartupCheck

SpecBoot == BootInit /\ [][BootNext]_vars

\* C29: whenever the Holder service accepts traffic its wallet holds a
\* credential whose credentialSubject.id is the wallet's DID, whatever the
\* data directory held and whatever the Issuer answered.
C29_ServesWithCredential ==
    boot.pc = "serving" =>
       \E i \in DOMAIN boot.my_vcs : boot.my_vcs[i].credentialSubject.id = boot.did

\* ---------------------------------------------------------------------------
\* agents/holder/runtime.py: POST /reset_memory among the memory files of
\* several counterparties.  The counterparties are DIDs
\* did:ethr:sepolia:<address>, on which get_memory_file is one-to-one.
\* ---------------------------------------------------------------------------

\* the pair of records one completed exchange number n leaves in a log
MemoryPair(n) == <<[nonce |-> n], [nonce |-> n, context_hash |-> Sha256(<<>>)]>>

notResetVars == <<valVars, vpVars, vlog, clock, target_holder_did, auditPhase, done200, last,
                  issVars, runVars, ipfsVars, batch, boot>>

\* an exchange with counterparty did completes: append_interaction
Remember(did, n) ==
    /\ Len(ReadLog(hlog, did)) < 2 * MaxLogPairs
    /\ hlog' = append_interaction(hlog, did, MemoryPair(n)[1], MemoryPair(n)[2])
    /\ UNCHANGED obs
    /\ UNCHANGED notResetVars

\* POST /reset_memory with the body data
ResetMemoryRequest(data) ==
    /\ \E r \in {reset_memory(hlog, data)} :
          /\ hlog' = r.files
          /\ obs' = [op |-> "reset_memory", data |-> data, before |-> hlog,
                     after |-> r.files, status |-> r.status]
    /\ UNCHANGED notResetVars

ResetInit ==
    /\ registry = [d \in DIDs |-> TRUE]
    /\ api_url_pool = <<>>
    /\ did_cache = [p \in Procs |-> EmptyCache]
    /\ RPC_CYCLE = [p \in Procs |-> 0]
    /\ vtrace = NoTrace
    /\ VpIdle
    /\ AuditIdle
    /\ IssuerIdle
    /\ RunIdle
    /\ IpfsIdle
    /\ batch = NoBatch
    /\ boot = NoBoot
    /\ obs = [op |-> "none", data |-> EmptyRequest, before |-> NoFiles, after |-> NoFiles,
              status |-> ""]

ResetNext ==
    \/ \E did \in DIDs, n \in 1..2 : Remember(did, n)
    \/ \E data \in {EmptyRequest} \cup {[verifier_did |-> d] : d \in DIDs} :
          ResetMemoryRequest(data)

SpecReset == ResetInit /\ [][ResetNext]_vars

\* C30: POST /reset_memory with verifier_did = V removes V's memory file
\* only: V's snapshot hash becomes the hash of the empty log, every other
\* counterparty keeps its log, and the answer says cleared exactly when a
\* file was removed; without verifier_did or without a file nothing changes
\* and the answer says no_op.
C30_ResetFrame ==
    obs.op = "reset_memory" =>
       LET V == Get(obs.data, "verifier_did", NoDid)
       IN /\ IF V # NoDid /\ V \in DOMAIN obs.before
             THEN /\ obs.status = "cleared"
                  /\ get_snapshot_hash(obs.after, V) = Sha256(DumpList(<<>>))
                  /\ DOMAIN obs.after = (DOMAIN obs.before) \ {V}
                  /\ \A d \in DOMAIN obs.after : obs.after[d] = obs.before[d]
             ELSE /\ obs.status = "no_op"
                  /\ obs.after = obs.before
          /\ obs.status = "cleared" <=> DOMAIN obs.after # DOMAIN obs.before

C30_Witness ==
    /\ obs.op = "reset_memory"
    /\ obs.status = "cleared"
    /\ obs.data = [verifier_did |-> DidOf("V")]
    /\ Len(ReadLog(obs.before, DidOf("V"))) = 2 * MaxLogPairs
    /\ DidOf("I") \in DOMAIN obs.after
    /\ DidOf("H") \in DOMAIN obs.after
    /\ get_snapshot_hash(obs.after, DidOf("I")) # Sha256(DumpList(<<>>))

\* ---------------------------------------------------------------------------
\* DIDValidator.verify_request_signature: when the retry is taken
\* ---------------------------------------------------------------------------

\* the traced verification resolved the document during the call (cache
\* miss) and that document does not authorize the recovered signer
FailedOnFreshDoc ==
    /\ vtrace.op = "verify"
    /\ vtrace.sigOk
    /\ vtrace.did # NoDid
    /\ vtrace.did \notin DOMAIN vtrace.cacheBefore
    /\ vtrace.env1.k < max_retries
    /\ ~vtrace.env1.null
    /\ ~check_authorization(vtrace.chainDoc, vtrace.addr)

\* C31: the eviction and the second resolution happen only when the document
\* that failed the authorization check was in the cache before the call; on a
\* cache miss with an unauthorized signer the call reports failure with no
\* eviction and no second resolution.
C31_RetryOnlyFromCache ==
    /\ (vtrace.op = "verify" /\ vtrace.evictions > 0) => vtrace.did \in DOMAIN vtrace.cacheBefore
    /\ FailedOnFreshDoc =>
          /\ vtrace.evictions = 0
          /\ vtrace.resolves = 1
          /\ vtrace.ret = "pair"
          /\ ~vtrace.ok

\* ---------------------------------------------------------------------------
\* _demo_2v2/demo_verifier_server.py: audits submitted to the thread pool
\* and their _append_interaction on the memory file of one target
\* (agents/holder/runtime.py append_interaction in the threaded Holder takes
\* the same three steps).  obs.file is that file, obs.thr the pool threads.
\* ---------------------------------------------------------------------------

\* audits submitted while the pool is studied (the pool itself has 10 workers)
MaxAudits == 2

\* exchanges appended by one audit while it is studied
MaxAppends == 2

PoolThreads == 1..MaxAudits

NoLogFile == [exists |-> FALSE, whole |-> TRUE, text |-> <<>>]

IdleThread == [pc |-> "free", memory_data |-> <<>>, n |-> 0]

\* the request/response pair of exchange n of the audit on thread i
AuditPair(i, n) == <<[audit |-> i, nonce |-> n], [audit |-> i, nonce |-> n, ok |-> TRUE]>>

\* POST /control/start_audit: executor.submit(execute_full_audit, target)
start_audit(i) ==
    /\ obs.thr[i].pc = "free"
    /\ obs' = [obs EXCEPT !.thr[i] = [IdleThread EXCEPT !.pc = "exchange"]]
    /\ UNCHANGED notObsVars

\* an exchange of the audit on thread i was answered: _append_interaction starts
Answered(i) ==
    /\ obs.thr[i].pc = "exchange"
    /\ obs.thr[i].n < MaxAppends
    /\ obs' = [obs EXCEPT !.thr[i].pc = "read", !.thr[i].n = @ + 1]
    /\ UNCHANGED notObsVars

\* existing_data = json.load(f) when the file exists, [] when it does not or
\* when it does not parse
ReadExisting(i) ==
    /\ obs.thr[i].pc = "read"
    /\ obs' = [obs EXCEPT !.thr[i].pc = "open",
                          !.thr[i].memory_data = IF obs.file.exists /\ obs.file.whole
                                                 THEN obs.file.text ELSE <<>>]
    /\ UNCHANGED notObsVars

\* open(file_path, 'w') truncates the file
OpenTruncate(i) ==
    /\ obs.thr[i].pc = "open"
    /\ obs' = [obs EXCEPT !.thr[i].pc = "dump",
                          !.file = [exists |-> TRUE, whole |-> FALSE, text |-> <<>>]]
    /\ UNCHANGED notObsVars

\* json.dump(existing_data + [req, res], f) and close
DumpAppended(i) ==
    /\ obs.thr[i].pc = "dump"
    /\ obs' = [obs EXCEPT !.thr[i].pc = "exchange",
                          !.file = [exists |-> TRUE, whole |-> TRUE,
                                    text |-> obs.thr[i].memory_data \o AuditPair(i, obs.thr[i].n)],
                          !.done = Append(@, <<i, obs.thr[i].n>>)]
    /\ UNCHANGED notObsVars

\* execute_full_audit returns
AuditReturns(i) ==
    /\ obs.thr[i].pc = "exchange"
    /\ obs.thr[i].n = MaxAppends
    /\ obs' = [obs EXCEPT !.thr[i].pc = "returned"]
    /\ UNCHANGED notObsVars

LogInit ==
    /\ registry = [d \in DIDs |-> TRUE]
    /\ api_url_pool = <<>>
    /\ did_cache = [p \in Procs |-> EmptyCache]
    /\ RPC_CYCLE = [p \in Procs |-> 0]
    /\ vtrace = NoTrace
    /\ VpIdle
    /\ AuditIdle
    /\ IssuerIdle
    /\ RunIdle
    /\ IpfsIdle
    /\ batch = NoBatch
    /\ boot = NoBoot
    /\ obs = [op |-> "_append_interaction", file |-> NoLogFile,
              thr |-> [i \in PoolThreads |-> IdleThread], done |-> <<>>]

LogNext ==
    \/ \E i \in PoolThreads : start_audit(i)
    \/ \E i \in PoolThreads : Answered(i)
    \/ \E i \in PoolThreads : ReadExisting(i)
    \/ \E i \in PoolThreads : OpenTruncate(i)
    \/ \E i \in PoolThreads : DumpAppended(i)
    \/ \E i \in PoolThreads : AuditReturns(i)

SpecLog == LogInit /\ [][LogNext]_vars

\* thread i is inside the read-append-write sequence of _append_interaction
Writing(i) == obs.thr[i].pc \in {"read", "open", "dump"}

\* the pair of exchange <<i, n>> is in the file
InFile(e) ==
    \E k \in 1..Len(obs.file.text) : obs.file.text[k] = AuditPair(e[1], e[2])[1]

\* C32: no two read-append-write sequences on the same log file overlap, and
\* no appended request/response pair is lost or overwritten.
C32_OneWriter ==
    /\ \A i, j \in PoolThreads : (Writing(i) /\ Writing(j)) => i = j
    /\ (\A i \in PoolThreads : ~Writing(i)) =>
          \A k \in 1..Len(obs.done) : InFile(obs.done[k])

\* ---------------------------------------------------------------------------
\* Memory file names: agents/holder/runtime.py get_memory_file and
\* agents/verifier/runtime.py VerifierRuntime._get_memory_file, with several
\* Holders and Verifiers on one data directory each.
\* ---------------------------------------------------------------------------

HolderDids == {DidOf("H"), DidOf("H2")}

VerifierDids == {DidOf("V"), DidOf("V2")}

\* did.replace(":", "_")
replace_colon(did) == <<IF did[1] = "did:ethr:sepolia" THEN "did_ethr_sepolia" ELSE did[1], did[2]>>

\* Holder: memory_<verifier>.json in DATA_DIR
get_memory_file(verifier_did) == <<"memory", replace_colon(verifier_did)>>

\* Verifier: memory_<own>_to_<holder>.json in data_dir
_get_memory_file(my_did, target_did) ==
    <<"memory", replace_colon(my_did), "to", replace_colon(target_did)>>

\* an exchange between Verifier v and Holder h is answered 200: each side
\* appends the pair to the file it names for the other
CompleteExchange(v, h, n) ==
    /\ obs.count < MaxExchanges
    /\ obs' = [obs EXCEPT
                 !.count = @ + 1,
                 !.ex = [v |-> v, h |-> h],
                 !.holder_before = obs.holder_dir,
                 !.verifier_before = obs.verifier_dir,
                 !.holder_dir = append_interaction(@, get_memory_file(v),
                                                   MemoryPair(n)[1], MemoryPair(n)[2]),
                 !.verifier_dir = _append_interaction(@, _get_memory_file(v, h),
                                                      MemoryPair(n)[1], MemoryPair(n)[2])]
    /\ UNCHANGED notObsVars

MemoryInit ==
    /\ registry = [d \in DIDs |-> TRUE]
    /\ api_url_pool = <<>>
    /\ did_cache = [p \in Procs |-> EmptyCache]
    /\ RPC_CYCLE = [p \in Procs |-> 0]
    /\ vtrace = NoTrace
    /\ VpIdle
    /\ AuditIdle
    /\ IssuerIdle
    /\ RunIdle
    /\ IpfsIdle
    /\ batch = NoBatch
    /\ boot = NoBoot
    /\ obs = [op |-> "memory", count |-> 0, ex |-> [v |-> NoDid, h |-> NoDid],
              holder_dir |-> NoFiles, verifier_dir |-> NoFiles,
              holder_before |-> NoFiles, verifier_before |-> NoFiles]

MemoryNext ==
    \E v \in VerifierDids, h \in HolderDids, n \in 1..2 : CompleteExchange(v, h, n)

SpecMemory == MemoryInit /\ [][MemoryNext]_vars

\* the file in which the Holder with DID my_did keeps its log for verifier_did:
\* get_memory_file is called with the counterparty only
HolderFileOf(my_did, verifier_did) == get_memory_file(verifier_did)

\* the last exchange left the log and the snapshot hash of this file alone
Untouched(dir, before, file) ==
    /\ ReadLog(dir, file) = ReadLog(before, file)
    /\ get_snapshot_hash(dir, file) = get_snapshot_hash(before, file)

\* C33: logs are kept per (own DID, counterparty DID) pair on both sides; an
\* exchange between V and H1 changes neither the log nor the snapshot hash
\* that another Holder H2 on the same data directory keeps for V (nor the one
\* another Verifier keeps for H1).
C33_PerPairLogs ==
    obs.count > 0 =>
       /\ \A h2 \in HolderDids \ {obs.ex.h} :
             Untouched(obs.holder_dir, obs.holder_before, HolderFileOf(h2, obs.ex.v))
       /\ \A v2 \in VerifierDids \ {obs.ex.v} :
             Untouched(obs.verifier_dir, obs.verifier_before, _get_memory_file(v2, obs.ex.h))

\* ---------------------------------------------------------------------------
\* VerifierRuntime.run, one run with the history of its turns.  obs.hist
\* keeps, for every turn, the command line the Controller gave, what the
\* dispatch executed and what was fed back.
\* ---------------------------------------------------------------------------

\* the first COMMAND: line of a Controller output: cmd is the command it
\* gives and words are the command names found anywhere in the line, the
\* free text after the command included
CommandLines ==
    {[raise |-> TRUE, command |-> FALSE, cmd |-> "", words |-> {}],
     [raise |-> FALSE, command |-> FALSE, cmd |-> "", words |-> {}],
     [raise |-> FALSE, command |-> TRUE, cmd |-> "", words |-> {}]}
    \cup {[raise |-> FALSE, command |-> TRUE, cmd |-> k, words |-> {k}] : k \in Keywords}
    \cup {[raise |-> FALSE, command |-> TRUE, cmd |-> k, words |-> {k, "INITIATE_AUTH"}] :
             k \in Keywords}

\* the protocol action a turn executed, read off what run() was left with
Called(r) ==
    CASE r.current_input \in {"Auth SUCCESS", "Auth FAILED"} -> "execute_auth"
      [] r.current_input \in {"Probe PASS", "Probe FAIL"} \/ r.st.pc = "raised" -> "execute_probe"
      [] r.current_input \in {"Context PASS", "Context FAIL"} -> "execute_context_check"
      [] r.current_input = "System: VC" -> "execute_request_vc"
      [] OTHER -> "none"

Passed(r) == r.current_input \in {"Auth SUCCESS", "Probe PASS", "Context PASS"}

notLoopVars == <<valVars, vpVars, audVars, issVars, ipfsVars, batch, boot, start_barrier, driver>>

\* run(max_turns, stats_queue=...) is called and comes to the while loop
RunBegins ==
    /\ workers[1].pc = "init"
    /\ workers' = [workers EXCEPT ![1] = run_start(@, start_barrier, max_turns).st]
    /\ UNCHANGED <<max_turns, stats_queue, obs>>
    /\ UNCHANGED notLoopVars

\* one iteration of the while loop
RunTurn(out, outcome) ==
    /\ workers[1].pc = "loop"
    /\ \E r \in {run_turn(workers[1], max_turns, stats_queue, 1, out, outcome)} :
          /\ workers' = [workers EXCEPT ![1] = r.st]
          /\ stats_queue' = [stats_queue EXCEPT !.items = @ \o r.put]
          /\ obs' = [obs EXCEPT !.hist = Append(@, [cmd |-> out.cmd, words |-> out.words,
                                                    called |-> Called(r), passed |-> Passed(r),
                                                    current_input |-> r.current_input,
                                                    ended |-> r.st.pc # "loop",
                                                    last_turn |-> r.st.turn >= max_turns,
                                                    put |-> Len(r.put)])]
    /\ UNCHANGED max_turns
    /\ UNCHANGED notLoopVars

LoopInit ==
    /\ registry = [d \in DIDs |-> TRUE]
    /\ api_url_pool = <<>>
    /\ did_cache = [p \in Procs |-> EmptyCache]
    /\ RPC_CYCLE = [p \in Procs |-> 0]
    /\ vtrace = NoTrace
    /\ VpIdle
    /\ AuditIdle
    /\ IssuerIdle
    /\ IpfsIdle
    /\ batch = NoBatch
    /\ boot = NoBoot
    /\ workers = <<NewWorker>>
    /\ max_turns \in 1..MaxTurns
    /\ start_barrier = NoBarrier
    /\ stats_queue \in {NoQueue, Queue}
    /\ driver = NoDriver
    /\ obs = [op |-> "run", hist |-> <<>>]

LoopNext ==
    \/ RunBegins
    \/ \E out \in CommandLines, outcome \in Outcomes : RunTurn(out, outcome)

SpecLoop == LoopInit /\ [][LoopNext]_vars

\* an earlier turn of the run executed this action and it passed
PassedBefore(k, action) ==
    \E j \in 1..(k - 1) : obs.hist[j].called = action /\ obs.hist[j].passed

\* C34: execute_context_check is executed only after an execute_probe of the
\* same run has passed, and execute_probe only after an execute_auth of the
\* same run has succeeded.
C34_StrictPhaseOrder ==
    \A k \in 1..Len(obs.hist) :
        /\ obs.hist[k].called = "execute_context_check" => PassedBefore(k, "execute_probe")
        /\ obs.hist[k].called = "execute_probe" => PassedBefore(k, "execute_auth")

\* C35: a command line whose command is ABORT or FINISH_AUDIT ends the loop
\* in that turn and executes no protocol action, whatever text follows the
\* command.
C35_AbortEndsRun ==
    \A k \in 1..Len(obs.hist) :
        obs.hist[k].cmd \in {"ABORT", "FINISH_AUDIT"} =>
            /\ obs.hist[k].called = "none"
            /\ obs.hist[k].ended
            /\ k = Len(obs.hist)

\* the command line is dispatched to the probe or the context branch: it
\* names that command and none of those the dispatch looks for first
ProbeOrContextCommand(h) ==
    /\ h.words \cap {"INITIATE_PROBE", "INITIATE_CONTEXT_CHECK"} # {}
    /\ h.words \cap {"REQUEST_VC", "INITIATE_AUTH"} = {}

StatKeys ==
    {"T1", "T2", "T3", "T4", "T5", "T6", "T7", "T8", "T9", "T10", "T11", "T12",
     "SLA_Load_Ratio"}

NumWriters == 2

\* the content of the CID, written in this many pieces
FullContent == <<1, 2>>

CacheWriters == 1..NumWriters

NoWriter == [pc |-> "start", fd |-> 0, off |-> 0]

\* byte k written into a file of the given bytes: a gap before it reads as zeros
PutByte(bytes, k, b) ==
    [j \in 1..Max(Len(bytes), k) |-> IF j = k THEN b ELSE IF j <= Len(bytes) THEN bytes[j] ELSE 0]

\* temp_path.write_bytes(content) opens cid.tmp for writing: the file is
\* created, or the existing one is truncated
OpenTemp(w) ==
    /\ obs.proc[w].pc = "start"
    /\ IF obs.names.tmp # 0
       THEN obs' = [obs EXCEPT !.proc[w] = [pc |-> "write", fd |-> obs.names.tmp, off |-> 0],
                               !.inode[obs.names.tmp] = <<>>]
       ELSE obs' = [obs EXCEPT !.proc[w] = [pc |-> "write", fd |-> obs.created + 1, off |-> 0],
                               !.names.tmp = obs.created + 1,
                               !.created = @ + 1]
    /\ UNCHANGED notObsVars

\* one piece of the content reaches the open file
WritePiece(w) ==
    /\ obs.proc[w].pc = "write"
    /\ obs.proc[w].off < Len(FullContent)
    /\ obs' = [obs EXCEPT !.proc[w].off = @ + 1,
                          !.inode[obs.proc[w].fd] =
                              PutByte(@, obs.proc[w].off + 1, FullContent[obs.proc[w].off + 1])]
    /\ UNCHANGED notObsVars

\* write_bytes returns: the file is closed
CloseTemp(w) ==
    /\ obs.proc[w].pc = "write"
    /\ obs.proc[w].off = Len(FullContent)
    /\ obs' = [obs EXCEPT !.proc[w].pc = "rename"]
    /\ UNCHANGED notObsVars

\* temp_path.rename(cache_path); FileNotFoundError is caught and logged
RenameTemp(w) ==
    /\ obs.proc[w].pc = "rename"
    /\ IF obs.names.tmp # 0
       THEN obs' = [obs EXCEPT !.proc[w].pc = "done",
                               !.names = [final |-> obs.names.tmp, tmp |-> 0]]
       ELSE obs' = [obs EXCEPT !.proc[w].pc = "failed"]
    /\ UNCHANGED notObsVars

\* the process of the writer dies
Crash(w) ==
    /\ obs.proc[w].pc \in {"start", "write", "rename"}
    /\ obs' = [obs EXCEPT !.proc[w].pc = "crashed"]
    /\ UNCHANGED notObsVars

CacheInit ==
    /\ registry = [d \in DIDs |-> TRUE]
    /\ api_url_pool = <<>>
    /\ did_cache = [p \in Procs |-> EmptyCache]
    /\ RPC_CYCLE = [p \in Procs |-> 0]
    /\ vtrace = NoTrace
    /\ VpIdle
    /\ AuditIdle
    /\ IssuerIdle
    /\ RunIdle
    /\ IpfsIdle
    /\ batch = NoBatch
    /\ boot = NoBoot
    /\ obs = [op |-> "_write_cache", names |-> [final |-> 0, tmp |-> 0], created |-> 0,
              inode |-> [i \in 1..NumWriters |-> <<>>],
              proc |-> [w \in CacheWriters |-> NoWriter]]

CacheNext ==
    \/ \E w \in CacheWriters : OpenTemp(w)
    \/ \E w \in CacheWriters : WritePiece(w)
    \/ \E w \in CacheWriters : CloseTemp(w)
    \/ \E w \in CacheWriters : RenameTemp(w)
    \/ \E w \in CacheWriters : Crash(w)

SpecCache == CacheInit /\ [][CacheNext]_vars

\* C37: at every instant, crashes and concurrent writers of the same CID
\* included, the cache file named cid does not exist or holds the complete
\* content; a partly written entry is never visible under the final name.
C37_CacheEntryComplete ==
    obs.names.final # 0 => obs.inode[obs.names.final] = FullContent

\* ---------------------------------------------------------------------------
\* _demo_2v2/demo_verifier_server.py VerifierServerLogic.execute_full_audit
\* against a Holder that handles the three requests with the handlers of
\* agents/holder/runtime.py.
\* ---------------------------------------------------------------------------

\* the resolver and registry during a demo audit: every DID resolves
DemoNet == Net(<<>>, 1, [d \in DIDs |-> TRUE], Up, Up)

\* what execute_full_audit leaves: the returned status, both logs, whether
\* the probe was sent, and the Holder's answers it saw
AuditOut(status, files, hfiles, sent, answers) ==
    [status |-> status, files |-> files, hfiles |-> hfiles, probe_sent |-> sent,
     answers |-> answers]

\* hdl is how the Holder decides on the three requests; n stands for the
\* fresh uuid4 values
execute_full_audit(files, hfiles, target_did, vcs, now, n, hdl) ==
    LET auth_req == AuthRequest(n)
        ha == handle_auth(hfiles, EmptyCache, 0, DemoNet, vcs, now, auth_req, hdl.auth)
    IN IF ha.status # 200 THEN AuditOut("Auth Failed", files, ha.files, FALSE, <<ha>>)
       ELSE
       LET f1 == _append_interaction(files, target_did, auth_req, ha.body)
           payload == ProbeRequest(n)
           hp == handle_probe(ha.files, ha.cache, ha.cycle, DemoNet, vcs, now, payload, hdl.probe)
           res_text == Get(hp.body, "execution_result", "")
           f2 == _append_interaction(f1, target_did, payload, hp.body)
       IN IF ~_verify_tool_outputs(res_text, "expected")
          THEN AuditOut("Probe Failed", f2, hp.files, TRUE, <<ha, hp>>)
          ELSE
          LET ctx_req == ContextHashCheck(n)
              hc == handle_context_hash(hp.files, hp.cache, hp.cycle, DemoNet, vcs, now,
                                        ctx_req, hdl.context)
              remote_hash == Get(hc.body, "context_hash", <<"None", <<>>>>)
              local_hash == _get_local_snapshot_hash(f2, target_did)
              f3 == _append_interaction(f2, target_did, ctx_req, hc.body)
          IN AuditOut(IF remote_hash = local_hash THEN "Success" ELSE "Context Failed",
                  f3, hc.files, TRUE, <<ha, hp, hc>>)

\* the Holder's wallet and decisions, and the time
DemoInputs ==
    [vcs : {<<>>} \cup {<<v>> : v \in VCPool},
     now : 0..MaxTime,
     hdl : [auth : BrainOutputs, probe : {GoodResult, BadResult, "raise"},
            context : BrainOutputs]]

\* POST /control/start_audit runs execute_full_audit(target)
ExecuteFullAudit ==
    /\ obs.out = "none"
    /\ obs' = [obs EXCEPT !.out = "returned",
                          !.res = <<execute_full_audit(NoFiles, NoFiles, DidOf("H"), obs.inp.vcs,
                                                       obs.inp.now, 1, obs.inp.hdl)>>]
    /\ UNCHANGED notObsVars

DemoInit ==
    /\ registry = [d \in DIDs |-> TRUE]
    /\ api_url_pool = <<>>
    /\ did_cache = [p \in Procs |-> EmptyCache]
    /\ RPC_CYCLE = [p \in Procs |-> 0]
    /\ vtrace = NoTrace
    /\ VpIdle
    /\ AuditIdle
    /\ IssuerIdle
    /\ RunIdle
    /\ IpfsIdle
    /\ batch = NoBatch
    /\ boot = NoBoot
    /\ \E inp \in DemoInputs : obs = [op |-> "execute_full_audit", inp |-> inp, out |-> "none",
                                      res |-> <<>>]

DemoNext == ExecuteFullAudit

SpecDemo == DemoInit /\ [][DemoNext]_vars

\* VerifierRuntime.execute_auth, given the answer the demo audit got to its
\* authentication request, succeeds
RuntimeAuthSucceeds(r) ==
    execute_auth(NoFiles, EmptyCache, 0, DemoNet, obs.inp.now, AuthRequest(1), "ok",
                 r.answers[1]).success

\* C36: execute_full_audit reports Success only if execute_auth (HTTP 200 and
\* a presentation valid for the request nonce), the tool-output check of
\* execute_probe and the hash comparison of execute_context_check would all
\* succeed, and it sends the probe only after authentication succeeded.
C36_DemoSameChecks ==
    obs.out = "returned" =>
       LET r == obs.res[1] IN
       /\ r.probe_sent => RuntimeAuthSucceeds(r)
       /\ r.status = "Success" =>
             /\ RuntimeAuthSucceeds(r)
             /\ execute_probe(NoFiles, EmptyCache, 0, DidOf("H"), ProbeRequest(1), "ok",
                              r.answers[2], "pass").success
             /\ r.answers[3].status = 200

\* ---------------------------------------------------------------------------
\* The two logs of one Holder and one Verifier between exchanges
\* ---------------------------------------------------------------------------

\* the exchanges of the Verifier's audits alone: no other client, no reset
SessionNext ==
    \/ StartRun
    \/ \E f \in Faults, decision \in BrainOutputs : ExecuteAuth(f.link, decision, f.eh, f.ev)
    \/ \E f \in HolderFaults, decision \in {GoodResult, BadResult, "raise"},
          judge \in JudgeOutputs :
          ExecuteProbe(f.link, decision, judge, f.eh)
    \/ \E f \in HolderFaults, decision \in BrainOutputs :
          ExecuteContextCheck(f.link, decision, f.eh)

SpecSession == Init /\ [][SessionNext]_vars

\* C40: between exchanges the Holder's log for the Verifier and the
\* Verifier's log for the Holder hold the same entries in the same order,
\* also after exchanges that were rejected, failed, timed out or lost their
\* answer; so a later context check that the Holder approves and answers
\* still passes.
C40_LogsInStep ==
    /\ \A k \in 1..Max(Len(ReadLog(hlog, DidOf("V"))), Len(ReadLog(vlog, DidOf("H")))) :
          /\ k <= Len(ReadLog(hlog, DidOf("V")))
          /\ k <= Len(ReadLog(vlog, DidOf("H")))
          /\ ReadLog(hlog, DidOf("V"))[k] = ReadLog(vlog, DidOf("H"))[k]
    /\ (last.op = "context" /\ last.recv = 200 /\ last.approved) => last.success

====
